---- MODULE Spec2Model ----
(***************************************************************************)
(* A model of the region detection of ExcelMetadataExtractor               *)
(* (src/excel_metadata_extractor.py): detect_regions with its drawing      *)
(* phase, cell phase, summarization and metadata phases, the boundary      *)
(* scanner find_region_boundaries, the drawing extraction and the          *)
(* workbook loop of extract_all_metadata.                                  *)
(***************************************************************************)
EXTENDS Integers, Sequences, FiniteSets, TLC

\* ---------------------------------------------------------------- bounds
MaxRows == 2        \* rows of a generated sheet
MaxCols == 2        \* columns of a generated sheet
MaxFilled == 3      \* non-empty cells plus drawing anchors of a generated sheet
MaxAnchors == 2     \* drawing anchors of a generated sheet
MaxSheets == 2      \* sheets of a generated workbook
MaxBeyond == 1      \* rows or columns by which a long sheet exceeds a scan limit

\* ------------------------------------------------------ program constants
ROW_CAP == 100            \* range(1, min(sheet.max_row + 1, 100))
COL_CAP == 20             \* range(1, min(sheet.max_column + 1, 20))
ROW_SCAN_LIMIT == 1000    \* start_row + 1000
ROW_SCAN_WINDOW == 20     \* start_col + 20
COL_SCAN_LIMIT == 50      \* start_col + 50
COL_SCAN_WINDOW == 50     \* start_row + 50
min_empty_rows == 1
min_empty_cols == 1
MAX_REGIONS == 10         \* len(regions) >= 10
EMU_PER_CELL == 914400
SAMPLE_ROWS == 5          \* min(max_row, start_row + 5)
MAX_COLUMN_INDEX == 18278 \* openpyxl: get_column_letter accepts 1..18278

Min(a, b) == IF a < b THEN a ELSE b
Max(a, b) == IF a > b THEN a ELSE b

RECURSIVE SetMax(_)
SetMax(S) == IF S = {} THEN 0
             ELSE LET x == CHOOSE y \in S : TRUE IN Max(x, SetMax(S \ {x}))

\* ------------------------------------------------------------ cell values
\* A cell value is None or a str; a str is the sequence of its characters.
CellNone == [kind |-> "none", s |-> <<>>]
Str(chars) == [kind |-> "str", s |-> chars]
CellValues == {Str(<<"a">>), Str(<<"-">>)}

\* str.strip(): leading and trailing blanks removed
RECURSIVE LStrip(_)
LStrip(s) == IF s # <<>> /\ Head(s) = " " THEN LStrip(Tail(s)) ELSE s
RECURSIVE RStrip(_)
RStrip(s) == IF s # <<>> /\ s[Len(s)] = " " THEN RStrip(SubSeq(s, 1, Len(s) - 1)) ELSE s
Strip(s) == RStrip(LStrip(s))

\* `x in '-_='` for a str x: x is a substring of '-_='
DelimiterChars == <<"-", "_", "=">>
IsSubstring(x, t) ==
    \E i \in 1..(Len(t) + 1) : \E j \in (i - 1)..Len(t) : SubSeq(t, i, j) = x

\* variant: no value counts as a delimiter
IsDelimiterOnly_never(v) == FALSE

\* isinstance(cell_value, str) and len(cell_value.strip()) == 1
\*     and cell_value.strip() in '-_='
IsDelimiterOnly(v) ==
    /\ v.kind = "str"
    /\ Len(Strip(v.s)) = 1
    /\ IsSubstring(Strip(v.s), DelimiterChars)

\* --------------------------------------------------- coordinate strings
Letters == <<"A", "B", "C", "D", "E", "F", "G", "H", "I", "J", "K", "L", "M",
             "N", "O", "P", "Q", "R", "S", "T", "U", "V", "W", "X", "Y", "Z">>

\* openpyxl.utils.get_column_letter: bijective base 26, most significant first
RECURSIVE ColLetters(_)
ColLetters(n) ==
    IF n = 0 THEN <<>>
    ELSE LET rem == IF n % 26 = 0 THEN 26 ELSE n % 26
         IN  Append(ColLetters((n - rem) \div 26), Letters[rem])
get_column_letter(n) == ColLetters(n)

LetterIndex(ch) == CHOOSE i \in 1..26 : Letters[i] = ch
\* openpyxl.utils.column_index_from_string
RECURSIVE column_index_from_string(_)
column_index_from_string(ls) ==
    IF ls = <<>> THEN 0
    ELSE 26 * column_index_from_string(SubSeq(ls, 1, Len(ls) - 1)) + LetterIndex(ls[Len(ls)])

\* f"{get_column_letter(c)}{r}": the letters and the decimal row number; the two
\* alphabets are disjoint, so the string is the pair of its two parts.
Coord(c, r) == [col |-> get_column_letter(c), row |-> r]
\* f"{A}{r1}:{B}{r2}"
RangeStr(c1, r1, c2, r2) == <<Coord(c1, r1), Coord(c2, r2)>>

\* the cells (as coordinate strings) a range string covers
RangeCells(rng) ==
    { Coord(c, r) : c \in column_index_from_string(rng[1].col)..column_index_from_string(rng[2].col),
                    r \in rng[1].row..rng[2].row }
\* the cells a 1-based rectangle covers
BoxCells(c1, r1, c2, r2) == { Coord(c, r) : c \in c1..c2, r \in r1..r2 }

\* ---------------------------------------------------------------- sheets
\* sheet.cell(row, column).value: a cell that was never written reads None
CellValue(sheet, row, col) ==
    IF <<row, col>> \in DOMAIN sheet.cells THEN sheet.cells[<<row, col>>] ELSE CellNone

\* ------------------------------------------------------ boundary scanner
\* variant: a row is judged by the seed column alone
RowWindowEmpty_seed_column(sheet, row, start_col) ==
    CellValue(sheet, row, start_col) = CellNone

\* the column window of the row scan is empty in `row`
RowWindowEmpty(sheet, row, start_col) ==
    \A c \in start_col..(Min(start_col + ROW_SCAN_WINDOW, sheet.max_column + 1) - 1) :
        CellValue(sheet, row, c) = CellNone

\* variant: the row that ends the scan is taken into the box
RowLoopBody_late_break(sheet, start_col, row, st) ==
    IF st.broke THEN st
    ELSE IF RowWindowEmpty(sheet, row, start_col)
         THEN [st EXCEPT !.empty_row_count = @ + 1, !.max_row = row, !.broke = TRUE]
         ELSE [st EXCEPT !.empty_row_count = 0, !.max_row = row]

\* one iteration of the row loop; once the loop has hit `break` the remaining
\* iterations do nothing
RowLoopBody(sheet, start_col, row, st) ==
    IF st.broke THEN st
    ELSE IF RowWindowEmpty(sheet, row, start_col)
         THEN IF st.empty_row_count + 1 >= min_empty_rows
              THEN [st EXCEPT !.empty_row_count = @ + 1, !.broke = TRUE]
              ELSE [st EXCEPT !.empty_row_count = @ + 1]
         ELSE [st EXCEPT !.empty_row_count = 0, !.max_row = row]

\* the iterations first..last of the row loop, in order (the range is halved
\* so that a scan of a thousand rows nests only a few levels deep)
RECURSIVE RowLoop(_, _, _, _, _)
RowLoop(sheet, start_col, first, last, st) ==
    IF first > last THEN st
    ELSE IF first = last THEN RowLoopBody(sheet, start_col, first, st)
    ELSE LET mid == (first + last) \div 2
             half == RowLoop(sheet, start_col, first, mid, st)
         IN  IF half.broke THEN half
             ELSE RowLoop(sheet, start_col, mid + 1, last, half)

\* variant: the row loop runs to the sheet's last row
RowScan_unlimited(sheet, start_row, start_col, row, empty_row_count, max_row) ==
    RowLoop(sheet, start_col, row, sheet.max_row,
            [empty_row_count |-> empty_row_count, max_row |-> max_row,
             broke |-> FALSE]).max_row

\* for row in range(start_row, min(sheet.max_row + 1, start_row + 1000)),
\* entered at `row` with the loop's counters
RowScan(sheet, start_row, start_col, row, empty_row_count, max_row) ==
    RowLoop(sheet, start_col, row,
            Min(sheet.max_row + 1, start_row + ROW_SCAN_LIMIT) - 1,
            [empty_row_count |-> empty_row_count, max_row |-> max_row,
             broke |-> FALSE]).max_row

\* variant: a column is judged over every row from the seed row to the sheet's
\* last row
ColWindowEmpty_whole_column(sheet, col, start_row, max_row) ==
    \A r \in start_row..sheet.max_row : CellValue(sheet, r, col) = CellNone

\* the row window of the column scan is empty in `col`
ColWindowEmpty(sheet, col, start_row, max_row) ==
    \A r \in start_row..(Min(max_row + 1, start_row + COL_SCAN_WINDOW) - 1) :
        CellValue(sheet, r, col) = CellNone

\* one iteration of the column loop
ColLoopBody(sheet, start_row, max_row, col, st) ==
    IF st.broke THEN st
    ELSE IF ColWindowEmpty(sheet, col, start_row, max_row)
         THEN IF st.empty_col_count + 1 >= min_empty_cols
              THEN [st EXCEPT !.empty_col_count = @ + 1, !.broke = TRUE]
              ELSE [st EXCEPT !.empty_col_count = @ + 1]
         ELSE [st EXCEPT !.empty_col_count = 0, !.max_col = col]

\* the iterations first..last of the column loop, in order
RECURSIVE ColLoop(_, _, _, _, _, _)
ColLoop(sheet, start_row, max_row, first, last, st) ==
    IF first > last THEN st
    ELSE IF first = last THEN ColLoopBody(sheet, start_row, max_row, first, st)
    ELSE LET mid == (first + last) \div 2
             half == ColLoop(sheet, start_row, max_row, first, mid, st)
         IN  IF half.broke THEN half
             ELSE ColLoop(sheet, start_row, max_row, mid + 1, last, half)

\* for col in range(start_col, min(sheet.max_column + 1, start_col + 50)),
\* entered at `col` with the loop's counters
ColScan(sheet, start_row, start_col, max_row, col, empty_col_count, max_col) ==
    ColLoop(sheet, start_row, max_row, col,
            Min(sheet.max_column + 1, start_col + COL_SCAN_LIMIT) - 1,
            [empty_col_count |-> empty_col_count, max_col |-> max_col,
             broke |-> FALSE]).max_col

\* variant: the scans' exclusive ends are returned
find_region_boundaries_exclusive(sheet, start_row, start_col) ==
    LET max_row == RowScan(sheet, start_row, start_col, start_row, 0, start_row)
        max_col == ColScan(sheet, start_row, start_col, max_row, start_col, 0, start_col)
    IN  <<Max(max_row, start_row) + 1, Max(max_col, start_col) + 1>>

\* variant: both maxima start before the seed and the result is not clamped
find_region_boundaries_unseeded(sheet, start_row, start_col) ==
    LET max_row == RowScan(sheet, start_row, start_col, start_row, 0, start_row - 1)
        max_col == ColScan(sheet, start_row, start_col, max_row, start_col, 0, start_col - 1)
    IN  <<max_row, max_col>>

\* returns <<max_row, max_col>>
find_region_boundaries(sheet, start_row, start_col) ==
    LET max_row == RowScan(sheet, start_row, start_col, start_row, 0, start_row)
        max_col == ColScan(sheet, start_row, start_col, max_row, start_col, 0, start_col)
    IN  <<Max(max_row, start_row), Max(max_col, start_col)>>

\* ------------------------------------------------- sampler and merges
analyze_cell_type(v) ==
    IF v.kind = "none" THEN "empty"
    ELSE IF v.kind \in {"int", "float"} THEN "numeric"
    ELSE IF v.kind = "date" THEN "date"
    ELSE "text"

\* str(cell.value) if cell.value is not None else ""
ValueText(v) == IF v.kind = "none" THEN <<>> ELSE v.s

\* a merged range is [min_row, max_row, min_col, max_col]; str(merged_range)
MergedRangeStr(m) == RangeStr(m.min_col, m.min_row, m.max_col, m.max_row)

\* isinstance(cell, MergedCell): a cell of a merged range other than its top-left
IsMergedCell(sheet, row, col) ==
    \E i \in 1..Len(sheet.merged_ranges) :
        LET m == sheet.merged_ranges[i]
        IN  /\ m.min_row <= row /\ row <= m.max_row
            /\ m.min_col <= col /\ col <= m.max_col
            /\ <<row, col>> # <<m.min_row, m.min_col>>

CellInfo(sheet, row, col) ==
    LET v == CellValue(sheet, row, col)
        owners == { i \in 1..Len(sheet.merged_ranges) :
                      LET m == sheet.merged_ranges[i]
                      IN  /\ m.min_row <= row /\ row <= m.max_row
                          /\ m.min_col <= col /\ col <= m.max_col }
    IN  IF IsMergedCell(sheet, row, col)
        THEN LET m == sheet.merged_ranges[CHOOSE i \in owners : \A j \in owners : i <= j]
             IN  [row |-> row, col |-> col,
                  value |-> ValueText(CellValue(sheet, m.min_row, m.min_col)),
                  type |-> analyze_cell_type(v),
                  isMerged |-> TRUE, mergedRange |-> MergedRangeStr(m)]
        ELSE [row |-> row, col |-> col, value |-> ValueText(v),
              type |-> analyze_cell_type(v)]

extract_region_cells(sheet, start_row, start_col, max_row, max_col) ==
    LET actual_max_row == Min(max_row, start_row + SAMPLE_ROWS)
        actual_max_col == max_col
    IN  [i \in 1..(actual_max_row - start_row + 1) |->
            [j \in 1..(actual_max_col - start_col + 1) |->
                CellInfo(sheet, start_row + i - 1, start_col + j - 1)]]

\* variant: a merged range that only overlaps the rectangle is taken as well
MergedInside_overlap(m, start_row, start_col, max_row, max_col) ==
    /\ m.max_row >= start_row /\ m.min_row <= max_row
    /\ m.max_col >= start_col /\ m.min_col <= max_col

MergedInside(m, start_row, start_col, max_row, max_col) ==
    /\ m.min_row >= start_row /\ m.max_row <= max_row
    /\ m.min_col >= start_col /\ m.max_col <= max_col

RECURSIVE MergedInfoFrom(_, _, _, _, _, _)
MergedInfoFrom(sheet, i, start_row, start_col, max_row, max_col) ==
    IF i > Len(sheet.merged_ranges) THEN <<>>
    ELSE LET m == sheet.merged_ranges[i]
             rest == MergedInfoFrom(sheet, i + 1, start_row, start_col, max_row, max_col)
         IN  IF MergedInside(m, start_row, start_col, max_row, max_col)
             THEN <<[range |-> MergedRangeStr(m),
                     value |-> CellValue(sheet, m.min_row, m.min_col)]>> \o rest
             ELSE rest

get_merged_cells_info(sheet, start_row, start_col, max_row, max_col) ==
    MergedInfoFrom(sheet, 1, start_row, start_col, max_row, max_col)

\* ---------------------------------------------------- drawing anchors
\* An anchor of drawing.xml: its tag, the child it carries (an xdr:sp shape or
\* an xdr:pic picture), and its xdr:from, xdr:to, xdr:ext and xdr:pos elements.
NoMarker == [present |-> FALSE, complete |-> FALSE, col |-> 0, row |-> 0, colOff |-> 0, rowOff |-> 0]
Marker(c, r) == [present |-> TRUE, complete |-> TRUE, col |-> c, row |-> r, colOff |-> 0, rowOff |-> 0]
\* an xdr:from without child elements
BrokenMarker == [present |-> TRUE, complete |-> FALSE, col |-> 0, row |-> 0, colOff |-> 0, rowOff |-> 0]
NoExt == [present |-> FALSE, cx |-> 0, cy |-> 0]
Ext(w, h) == [present |-> TRUE, cx |-> w, cy |-> h]
NoPos == [present |-> FALSE, x |-> 0, y |-> 0]
Pos(px, py) == [present |-> TRUE, x |-> px, y |-> py]

TwoCellAnchor(child, fc, fr, tc, tr) ==
    [tag |-> "twoCellAnchor", child |-> child, childComplete |-> TRUE,
     from |-> Marker(fc, fr), to |-> Marker(tc, tr), ext |-> NoExt, pos |-> NoPos]
OneCellAnchor(child, fc, fr, w, h) ==
    [tag |-> "oneCellAnchor", child |-> child, childComplete |-> TRUE,
     from |-> Marker(fc, fr), to |-> NoMarker, ext |-> Ext(w, h), pos |-> NoPos]
AbsoluteAnchor(child, px, py, w, h) ==
    [tag |-> "absoluteAnchor", child |-> child, childComplete |-> TRUE,
     from |-> NoMarker, to |-> NoMarker, ext |-> Ext(w, h), pos |-> Pos(px, py)]
MalformedAnchor ==
    [tag |-> "twoCellAnchor", child |-> "pic", childComplete |-> TRUE,
     from |-> BrokenMarker, to |-> NoMarker, ext |-> NoExt, pos |-> NoPos]

\* the anchors a generated drawing part is built from: a two-cell picture over
\* B1:B1, a two-cell shape over A1:B2, a one-cell shape and picture, an absolute
\* picture and an anchor whose xdr:from is malformed
AnchorVariants ==
    { TwoCellAnchor("pic", 1, 0, 1, 0), TwoCellAnchor("sp", 0, 0, 1, 1),
      OneCellAnchor("sp", 1, 0, 0, 0), OneCellAnchor("pic", 1, 0, 0, 0),
      AbsoluteAnchor("pic", 0, 0, EMU_PER_CELL, EMU_PER_CELL), MalformedAnchor }

\* a function that returned None
NoneResult == [type |-> "None"]

\* _extract_shape_info(sp, anchor, vml_controls): NoneResult, or the shape_info
\* dict; "range" and "coordinates" are set only when the anchor has both an
\* xdr:from and an xdr:to child.
extract_shape_info(a) ==
    IF ~a.childComplete THEN NoneResult
    ELSE IF a.from.present /\ a.to.present
    THEN IF ~a.from.complete \/ ~a.to.complete
              \/ a.from.col + 1 \notin 1..MAX_COLUMN_INDEX
              \/ a.to.col + 1 \notin 1..MAX_COLUMN_INDEX
         THEN NoneResult      \* the exception is caught: return None
         ELSE [type |-> "shape",
               coordinates |->
                 [from |-> [col |-> (a.from.col + (a.from.colOff \div EMU_PER_CELL)) + 1,
                            row |-> (a.from.row + (a.from.rowOff \div EMU_PER_CELL)) + 1],
                  to   |-> [col |-> (a.to.col + (a.to.colOff \div EMU_PER_CELL)) + 1,
                            row |-> (a.to.row + (a.to.rowOff \div EMU_PER_CELL)) + 1]],
               range |-> RangeStr(a.from.col + 1, a.from.row + 1, a.to.col + 1, a.to.row + 1)]
    ELSE [type |-> "shape"]

\* root.findall(twoCellAnchor) + root.findall(oneCellAnchor) + root.findall(absoluteAnchor)
AnchorsInOrder(anchors) ==
    SelectSeq(anchors, LAMBDA a : a.tag = "twoCellAnchor")
      \o SelectSeq(anchors, LAMBDA a : a.tag = "oneCellAnchor")
      \o SelectSeq(anchors, LAMBDA a : a.tag = "absoluteAnchor")

\* the first loop of extract_drawing_info: the xdr:sp of every anchor. A
\* shape_info without "range" is appended and then raises KeyError at
\* shape_info['range'], which leaves the whole function through its
\* `except KeyError` with the list built so far.
RECURSIVE ShapePass(_, _, _)
ShapePass(anchors, i, drawing_list) ==
    IF i > Len(anchors) THEN [list |-> drawing_list, aborted |-> FALSE]
    ELSE IF anchors[i].child # "sp" THEN ShapePass(anchors, i + 1, drawing_list)
    ELSE LET shape_info == extract_shape_info(anchors[i])
         IN  IF shape_info = NoneResult THEN ShapePass(anchors, i + 1, drawing_list)
             ELSE IF "range" \notin DOMAIN shape_info
                  THEN [list |-> Append(drawing_list, shape_info), aborted |-> TRUE]
                  ELSE ShapePass(anchors, i + 1, Append(drawing_list, shape_info))

\* the 0-based cell coordinates the second loop computes for one anchor:
\* [ok, from_col, from_row, to_col, to_row]; ok = FALSE when the anchor is left
\* (continue, or an exception caught by the loop's try). An absolute anchor
\* without xdr:pos or xdr:ext assigns nothing: the variables keep what the
\* previous anchor left in them (`prev`).
Unbound == [ok |-> FALSE, from_col |-> 0, from_row |-> 0, to_col |-> 0, to_row |-> 0]
AnchorCoordinates(a, prev) ==
    LET \* anchor.find('.//xdr:to') or anchor.find('.//xdr:ext'): an element
        \* without children is falsy
        to_elem == IF a.to.present /\ a.to.complete THEN "to"
                   ELSE IF a.ext.present THEN "ext"
                   ELSE "None"
    IN
    IF a.tag = "absoluteAnchor"
    THEN IF a.pos.present /\ a.ext.present
         THEN [ok |-> TRUE,
               from_col |-> a.pos.x \div EMU_PER_CELL,
               from_row |-> a.pos.y \div EMU_PER_CELL,
               to_col |-> (a.pos.x \div EMU_PER_CELL) + (a.ext.cx \div EMU_PER_CELL),
               to_row |-> (a.pos.y \div EMU_PER_CELL) + (a.ext.cy \div EMU_PER_CELL)]
         ELSE prev
    ELSE IF ~a.from.present \/ ~a.from.complete THEN Unbound
    ELSE IF to_elem # "None"
         THEN IF a.tag = "twoCellAnchor"
              THEN IF to_elem = "to"
                   THEN [ok |-> TRUE, from_col |-> a.from.col, from_row |-> a.from.row,
                         to_col |-> a.to.col, to_row |-> a.to.row]
                   ELSE Unbound
              ELSE [ok |-> TRUE, from_col |-> a.from.col, from_row |-> a.from.row,
                    to_col |-> a.from.col + (IF to_elem = "ext" THEN a.ext.cx \div EMU_PER_CELL ELSE 0),
                    to_row |-> a.from.row + (IF to_elem = "ext" THEN a.ext.cy \div EMU_PER_CELL ELSE 0)]
         ELSE [ok |-> TRUE, from_col |-> a.from.col, from_row |-> a.from.row,
               to_col |-> a.from.col + 1, to_row |-> a.from.row + 1]

\* element.update({"range": ..., "coordinates": ...}) for the picture of an anchor
PictureElement(xy) ==
    [type |-> "image",
     range |-> RangeStr(xy.from_col + 1, xy.from_row + 1, xy.to_col + 1, xy.to_row + 1),
     coordinates |-> [from |-> [col |-> xy.from_col + 1, row |-> xy.from_row + 1],
                      to   |-> [col |-> xy.to_col + 1, row |-> xy.to_row + 1]]]

\* the second loop of extract_drawing_info: groups, connectors, pictures and
\* charts of every anchor, each inside its own try / except
RECURSIVE AnchorPass(_, _, _, _)
AnchorPass(anchors, i, drawing_list, prev) ==
    IF i > Len(anchors) THEN drawing_list
    ELSE LET a == anchors[i]
             xy == AnchorCoordinates(a, prev)
             usable == /\ xy.ok
                       /\ xy.from_col + 1 \in 1..MAX_COLUMN_INDEX
                       /\ xy.to_col + 1 \in 1..MAX_COLUMN_INDEX
         IN  IF ~xy.ok THEN AnchorPass(anchors, i + 1, drawing_list, prev)
             ELSE IF a.child = "pic" /\ a.childComplete /\ usable
                  THEN AnchorPass(anchors, i + 1, Append(drawing_list, PictureElement(xy)), xy)
                  ELSE AnchorPass(anchors, i + 1, drawing_list, xy)

extract_drawing_info(anchors) ==
    LET ordered == AnchorsInOrder(anchors)
        shapes == ShapePass(ordered, 1, <<>>)
    IN  IF shapes.aborted THEN shapes.list
        ELSE AnchorPass(ordered, 1, shapes.list, Unbound)

\* ------------------------------------------------------ generated sheets
GridCells == (1..MaxRows) \X (1..MaxCols)

\* a sheet whose extents are the bounding box of its cells (1 x 1 when empty)
MkSheet(cells, anchors) ==
    [cells |-> cells,
     max_row |-> Max(1, SetMax({ p[1] : p \in DOMAIN cells })),
     max_column |-> Max(1, SetMax({ p[2] : p \in DOMAIN cells })),
     merged_ranges |-> <<>>,
     anchors |-> anchors]

AnchorLists(n) == UNION { [1..m -> AnchorVariants] : m \in 0..n }

\* the number of non-empty cells of a grid filling
Filled(g) == Cardinality({ p \in DOMAIN g : g[p] # CellNone })
\* sheet.cells of a grid filling: the cells that were written
Written(g) == [p \in { q \in DOMAIN g : g[q] # CellNone } |-> g[p]]

\* the fillings of `grid` with at most k non-empty cells
GridMaps(grid, k) == { g \in [grid -> CellValues \cup {CellNone}] : Filled(g) <= k }

\* the sheets with at most `objects` non-empty cells and anchors together, the
\* cells inside `grid`, at most `maxAnchors` anchors
SheetsOver(grid, objects, maxAnchors) ==
    { MkSheet(Written(q[1]), q[2]) :
        q \in { p \in GridMaps(grid, objects) \X AnchorLists(Min(maxAnchors, objects)) :
                   Filled(p[1]) + Len(p[2]) <= objects } }

Sheets == SheetsOver(GridCells, MaxFilled, MaxAnchors)

\* the sheets a workbook of several sheets is built from: at most one object,
\* a cell in A1 or one anchor
SingleObjectSheets == SheetsOver({<<1, 1>>}, 1, 1)

\* the sheets detect_regions is called twice on
TwiceSheets == SheetsOver(GridCells, MaxFilled - 1, MaxAnchors - 1)

Workbooks ==
    { <<s>> : s \in Sheets }
      \cup UNION { [1..n -> SingleObjectSheets] : n \in 2..MaxSheets }

\* the sheets find_region_boundaries is called on: the fillings of a grid one
\* row and one column larger than GridCells with at most MaxFilled + 1 cells, a
\* filled column as long as the row scan's limit or longer, and a filled row
\* as long as the column scan's limit or longer, and sheets with a cell at the
\* edge of a scan's window
ScanGrid == (1..(MaxRows + 1)) \X (1..(MaxCols + 1))
FilledColumn(n) ==
    [cells |-> [p \in (1..n) \X {1} |-> Str(<<"a">>)],
     max_row |-> n, max_column |-> 1, merged_ranges |-> <<>>, anchors |-> <<>>]
FilledRow(n) ==
    [cells |-> [p \in {1} \X (1..n) |-> Str(<<"a">>)],
     max_row |-> 1, max_column |-> n, merged_ranges |-> <<>>, anchors |-> <<>>]
\* A1 and one cell of row 2, in the last column of the row scan's window from
\* column A (k = 0) or k columns past it
RowWindowEdge(k) ==
    [cells |-> [p \in {<<1, 1>>, <<2, ROW_SCAN_WINDOW + k>>} |-> Str(<<"a">>)],
     max_row |-> 2, max_column |-> ROW_SCAN_WINDOW + k,
     merged_ranges |-> <<>>, anchors |-> <<>>]
\* a filled column A and one cell of column B, in the last row of the column
\* scan's window from row 1 (k = 0) or k rows below it
ColWindowEdge(k) ==
    [cells |-> [p \in ((1..(COL_SCAN_WINDOW + k)) \X {1}) \cup {<<COL_SCAN_WINDOW + k, 2>>}
                  |-> Str(<<"a">>)],
     max_row |-> COL_SCAN_WINDOW + k, max_column |-> 2,
     merged_ranges |-> <<>>, anchors |-> <<>>]
ScanSheets ==
    { MkSheet([p \in filled |-> Str(<<"a">>)], <<>>) :
        filled \in { f \in SUBSET ScanGrid : Cardinality(f) <= MaxFilled + 1 } }
      \cup { FilledColumn(ROW_SCAN_LIMIT + k) : k \in 0..MaxBeyond }
      \cup { FilledRow(COL_SCAN_LIMIT + k) : k \in 0..MaxBeyond }
      \cup { RowWindowEdge(k) : k \in 0..MaxBeyond }
      \cup { ColWindowEdge(k) : k \in 0..MaxBeyond }
\* the seeds it is called with: inside the grid and one past it
ScanSeeds == (1..(MaxRows + 2)) \X (1..(MaxCols + 2))

\* the rectangles of a grid one column wider than GridCells, as openpyxl cell
\* ranges
Rects ==
    { [min_row |-> r[1], max_row |-> r[2], min_col |-> c[1], max_col |-> c[2]] :
        r \in { x \in (1..MaxRows) \X (1..MaxRows) : x[1] <= x[2] },
        c \in { x \in (1..(MaxCols + 1)) \X (1..(MaxCols + 1)) : x[1] <= x[2] } }
\* a merged range covers more than one cell
MergeRanges == { m \in Rects : m.min_row < m.max_row \/ m.min_col < m.max_col }
\* merged ranges of one sheet never overlap
Disjoint(m1, m2) ==
    \/ m1.max_row < m2.min_row \/ m2.max_row < m1.min_row
    \/ m1.max_col < m2.min_col \/ m2.max_col < m1.min_col
\* a sheet of merged ranges: only the top-left cell of a range holds a value
\* (values[i], which may be None); the other cells of the range are MergedCell
\* objects without a value, and the extents cover every range
MergedSheet(ranges, values) ==
    [cells |-> [p \in { <<ranges[i].min_row, ranges[i].min_col>> :
                          i \in { k \in 1..Len(ranges) : values[k] # CellNone } }
                  |-> values[CHOOSE i \in 1..Len(ranges) :
                                <<ranges[i].min_row, ranges[i].min_col>> = p]],
     max_row |-> Max(1, SetMax({ ranges[i].max_row : i \in 1..Len(ranges) })),
     max_column |-> Max(1, SetMax({ ranges[i].max_col : i \in 1..Len(ranges) })),
     merged_ranges |-> ranges,
     anchors |-> <<>>]
\* the sheets the merged-cell helpers are called on: one merged range, or two
\* disjoint ones in either order
TopLeftValues == {CellNone, Str(<<"a">>)}
MergedSheets ==
    { MergedSheet(<<m>>, <<v>>) : m \in MergeRanges, v \in TopLeftValues }
      \cup { MergedSheet(<<p[1], p[2]>>, <<p[3], p[4]>>) :
               p \in { q \in MergeRanges \X MergeRanges \X TopLeftValues \X TopLeftValues :
                          Disjoint(q[1], q[2]) } }

\* a sheet whose column A is filled down to row n, row `gap` excepted (no row
\* is excepted when gap = 0)
TallSheet(n, gap) ==
    [cells |-> [q \in ((1..n) \ {gap}) \X {1} |-> Str(<<"a">>)],
     max_row |-> n, max_column |-> 1, merged_ranges |-> <<>>, anchors |-> <<>>]
\* the sheets with more occupied rows than the cell loop visits: a filled
\* column, whole or with an empty row just before the loop's last row
TallSheets ==
    { TallSheet(ROW_CAP + k, gap) : k \in 0..MaxBeyond, gap \in {0, ROW_CAP - 2, ROW_CAP - 1} }

\* ---------------------------------------------------------------- state
VARIABLES
    workbook,          \* self.workbook: the sheets, in order
    harness,           \* "extract": extract_all_metadata; "mock" / "free":
                       \* detect_regions called twice on one sheet, with a
                       \* deterministic (replaying) or an unconstrained oracle
    si,                \* index of the sheet detect_regions works on
    run,               \* number of the detect_regions call on that sheet
    pc,                \* position in detect_regions / extract_all_metadata
    drawings,          \* the list extract_drawing_info returned
    di,                \* index of the drawing loop
    drawing_regions, cell_regions, regions, processed_cells,
    row, col,          \* position of the cell loop
    idx,               \* index of the summarization loop
    result,            \* what detect_regions returned or that it raised
    marked,            \* per drawing region, the cells marked processed for it
    summary_failed,    \* indices of the regions whose summarize call failed
    memo,              \* the answers the deterministic oracle has given, by payload
    prev_result,       \* "mock": the result of the first call
    prev_ranges,       \* the ranges of the first call's result
    prev_defaulted,    \* the first call got the failure default for every region type
    worksheets,        \* sheets_metadata of get_sheet_metadata
    file_metadata,
    outcome,           \* of extract_all_metadata: "pending", "returned", "raised"
    query,             \* the arguments of a helper method called on its own
    reply              \* what that call returned

vars == <<workbook, harness, si, run, pc, drawings, di, drawing_regions, cell_regions,
          regions, processed_cells, row, col, idx, result, marked, summary_failed,
          memo, prev_result, prev_ranges, prev_defaulted, worksheets,
          file_metadata, outcome, query, reply>>

locals == <<drawings, di, drawing_regions, cell_regions, regions, processed_cells,
            row, col, idx, result, marked, summary_failed>>
book == <<worksheets, file_metadata, outcome>>
twice == <<run, prev_result, prev_ranges, prev_defaulted>>
probe == <<query, reply>>

Sheet == workbook[si]

NoResult == [status |-> "none", regions |-> <<>>]
Returned(regs) == [status |-> "returned", regions |-> regs]
Raised == [status |-> "raised", regions |-> <<>>]

\* ---------------------------------------------------------------- oracle
\* regionType of the dict analyze_region_type returns: "table" (the header
\* branch), "chart" (the summary prompt of a cell region cannot be built) and
\* "unknown", the default substituted when the call fails; every other answer
\* ("text", "image") takes the path of "unknown"
RegionTypeAnswers == {"table", "chart", "unknown"}
\* the dict analyze_table_structure returns (its failure default is type "none")
HeaderAnswers ==
    { [kind |-> "dict", type |-> "single", rows |-> <<1>>],
      [kind |-> "dict", type |-> "none", rows |-> <<>>] }
NoHeaderCall == [kind |-> "dict", type |-> "not called", rows |-> <<>>]
\* the completion call of summarize_region / generate_sheet_summary answers or raises
SummaryAnswers == {"content", "error"}

SUMMARY_FAILED == "summary generation failed"         \* "サマリーの生成に失敗しました"
SHEET_SUMMARY_FAILED == "sheet summary generation failed"
ORACLE_TEXT == "oracle text"                          \* response.choices[0].message.content

EmptyMemo == [classify |-> <<>>, header |-> <<>>, summarize |-> <<>>, sheet |-> <<>>]
Known(kind, key) == harness = "mock" /\ key \in DOMAIN memo[kind]
\* what each helper makes of a completion call that raises: the default type of
\* analyze_region_type and of analyze_table_structure, the failure text of the summaries
OfflineAnswer(kind) ==
    IF kind = "classify" THEN "unknown"
    ELSE IF kind = "header" THEN [kind |-> "dict", type |-> "none", rows |-> <<>>]
    ELSE "error"
\* the answers the oracle may give to `key`: a deterministic oracle repeats
\* itself, an unreachable one fails every call
OracleChoices(kind, key, all) ==
    IF Known(kind, key) THEN {memo[kind][key]}
    ELSE IF harness = "offline" THEN {OfflineAnswer(kind)}
    ELSE all
Remember(m, kind, key, answer) ==
    IF harness = "mock" THEN [m EXCEPT ![kind] = (key :> answer) @@ @] ELSE m

\* ------------------------------------------------------ detect_regions
\* the cells the two range() loops over a drawing's coordinates visit
DrawingCells(coordinates) ==
    { Coord(c, r) : c \in coordinates.from.col..coordinates.to.col,
                    r \in coordinates.from.row..coordinates.to.row }

\* variant: the drawing's cells are not added to processed_cells
MarkDrawing_skipped(processed, coordinates) == processed

\* processed_cells.add(...) over the drawing's coordinates
MarkDrawing(processed, coordinates) == processed \cup DrawingCells(coordinates)

\* variant: the box of a cell region is not added to processed_cells
MarkBox_skipped(processed, start_row, start_col, max_row, max_col) == processed

\* processed_cells.add(...) over the box of a cell region
MarkBox(processed, start_row, start_col, max_row, max_col) ==
    processed \cup { Coord(c, r) : c \in start_col..max_col, r \in start_row..max_row }

\* region_info of a drawing (the descriptive fields name, description and
\* text_content carry no control flow and are left out)
drawing_region_info(drawing) ==
    [regionType |-> drawing.type, type |-> drawing.type, range |-> drawing.range,
     coordinates |-> drawing.coordinates,
     chartType |-> <<>>, series |-> <<>>, chart_data_json |-> <<>>]

\* detect_header_structure: analyze_table_structure's answer is used only when
\* it is a str; a dict gives the default
DefaultHeader ==
    [headerType |-> "none", headerRowsCount |-> 0, headerRows |-> <<>>, confidence |-> 0]
detect_header_structure(answer) ==
    IF answer.kind = "str"
    THEN [headerType |-> answer.type, headerRowsCount |-> Len(answer.rows),
          headerRows |-> answer.rows, confidence |-> 0]
    ELSE DefaultHeader

SeqMin(q) == CHOOSE x \in { q[i] : i \in 1..Len(q) } : \A j \in 1..Len(q) : x <= q[j]
SeqMax(q) == CHOOSE x \in { q[i] : i \in 1..Len(q) } : \A j \in 1..Len(q) : x >= q[j]

\* header_range: "N/A", f"{min}" or f"{min}-{max}"
HeaderRange(header_structure) ==
    IF header_structure.headerRows = <<>> THEN [form |-> "N/A", lo |-> 0, hi |-> 0]
    ELSE IF header_structure.headerType = "single"
         THEN [form |-> "row", lo |-> SeqMin(header_structure.headerRows),
               hi |-> SeqMin(header_structure.headerRows)]
         ELSE [form |-> "rows", lo |-> SeqMin(header_structure.headerRows),
               hi |-> SeqMax(header_structure.headerRows)]

\* region_metadata of the cell region seeded at (row, col)
cell_region(sheet, start_row, start_col, max_row, max_col, region_type, header_answer) ==
    LET cells_data == extract_region_cells(sheet, start_row, start_col, max_row, max_col)
        merged_cells == get_merged_cells_info(sheet, start_row, start_col, max_row, max_col)
        basic == [regionType |-> region_type,
                  range |-> RangeStr(start_col, start_row, max_col, max_row),
                  sampleCells |-> cells_data,
                  mergedCells |-> merged_cells]
        header_structure == detect_header_structure(header_answer)
    IN  IF region_type = "table"
        THEN [headerStructure |->
                [headerType |-> header_structure.headerType,
                 headerRowsCount |-> header_structure.headerRowsCount,
                 headerRows |-> header_structure.headerRows,
                 headerRange |-> HeaderRange(header_structure),
                 mergedCells |-> merged_cells # <<>>,
                 start_row |-> start_row]] @@ basic
        ELSE basic

\* variant: a region the oracle could not type is not kept
AppendCellRegion_typed(list, region_metadata) ==
    IF region_metadata.regionType = "unknown" THEN list ELSE Append(list, region_metadata)

\* cell_regions.append(region_metadata)
AppendCellRegion(list, region_metadata) == Append(list, region_metadata)

\* building the prompt of summarize_region raises for a "chart" region that has
\* no chartType key, no first series or no chart_data_json key
PromptFails(region) ==
    /\ region.regionType = "chart"
    /\ \/ "chartType" \notin DOMAIN region
       \/ "series" \notin DOMAIN region
       \/ region.series = <<>>
       \/ "chart_data_json" \notin DOMAIN region

\* variant: a failed call gives the empty text
summarize_region_blank(region, answer) ==
    IF PromptFails(region) \/ answer = "error" THEN "" ELSE ORACLE_TEXT

\* summarize_region: the oracle's text, or the fixed text of its except branch
summarize_region(region, answer) ==
    IF PromptFails(region) \/ answer = "error" THEN SUMMARY_FAILED ELSE ORACLE_TEXT

generate_sheet_summary(sheet_data, answer) ==
    IF answer = "error" THEN SHEET_SUMMARY_FAILED ELSE ORACLE_TEXT

\* variant: the cell regions are joined before the drawing regions
AssembleRegions_cells_first(list, drawing_list, cell_list) == list \o cell_list \o drawing_list

\* variant: regions.extend(drawing_regions) is left out
AssembleRegions_cells_only(list, drawing_list, cell_list) == list \o cell_list

\* regions.extend(drawing_regions); regions.extend(cell_regions)
AssembleRegions(list, drawing_list, cell_list) == list \o drawing_list \o cell_list

\* variant: processed_cells outlives the call
detect_regions_begin_stale(sheet) ==
    /\ regions' = <<>>
    /\ drawing_regions' = <<>>
    /\ cell_regions' = <<>>
    /\ processed_cells' = processed_cells
    /\ drawings' = extract_drawing_info(sheet.anchors)
    /\ di' = 1
    /\ row' = 1
    /\ col' = 1
    /\ idx' = 1
    /\ result' = NoResult
    /\ marked' = <<>>
    /\ summary_failed' = {}
    /\ pc' = IF extract_drawing_info(sheet.anchors) = <<>> THEN "cell_phase" ELSE "drawing_phase"

\* the first statements of detect_regions(sheet): fresh locals, the drawing part
\* of the sheet is read and extract_drawing_info runs
detect_regions_begin(sheet) ==
    /\ regions' = <<>>
    /\ drawing_regions' = <<>>
    /\ cell_regions' = <<>>
    /\ processed_cells' = {}
    /\ drawings' = extract_drawing_info(sheet.anchors)
    /\ di' = 1
    /\ row' = 1
    /\ col' = 1
    /\ idx' = 1
    /\ result' = NoResult
    /\ marked' = <<>>
    /\ summary_failed' = {}
    /\ pc' = IF extract_drawing_info(sheet.anchors) = <<>> THEN "cell_phase" ELSE "drawing_phase"

\* one iteration of `for drawing in drawings`
drawing_loop_step ==
    /\ pc = "drawing_phase"
    /\ LET drawing == drawings[di]
       IN  IF "range" \notin DOMAIN drawing \/ "coordinates" \notin DOMAIN drawing
           THEN \* KeyError: reaches `except Exception` of detect_regions, which re-raises
                /\ pc' = "raised"
                /\ result' = Raised
                /\ UNCHANGED <<drawing_regions, processed_cells, marked, di>>
           ELSE /\ drawing_regions' = Append(drawing_regions, drawing_region_info(drawing))
                /\ processed_cells' = MarkDrawing(processed_cells, drawing.coordinates)
                /\ marked' = Append(marked, DrawingCells(drawing.coordinates))
                /\ di' = di + 1
                /\ pc' = IF di = Len(drawings) THEN "cell_phase" ELSE "drawing_phase"
                /\ UNCHANGED result
    /\ UNCHANGED <<workbook, harness, si, drawings, cell_regions, regions, row, col, idx,
                   summary_failed, memo>>
    /\ UNCHANGED <<twice, book>>
    /\ UNCHANGED probe

\* variant: the row loop runs to the sheet's last row
LastRow_uncapped(sheet) == sheet.max_row

LastRow(sheet) == Min(sheet.max_row + 1, ROW_CAP) - 1
LastCol(sheet) == Min(sheet.max_column + 1, COL_CAP) - 1

\* variant: the loops run down each column before they move to the next one
AdvanceCell_column_major(region_count) ==
    IF row < LastRow(Sheet)
    THEN /\ row' = row + 1 /\ col' = col /\ pc' = "cell_phase"
    ELSE IF col < LastCol(Sheet)
         THEN /\ row' = 1 /\ col' = col + 1 /\ pc' = "cell_phase"
         ELSE /\ row' = row /\ col' = col
              /\ pc' = IF region_count = 0 THEN "metadata_phase" ELSE "summarize_phase"

\* the loop position after (row, col); the loops end in the summarization loop,
\* which has nothing to do when there is no region
AdvanceCell(region_count) ==
    IF col < LastCol(Sheet)
    THEN /\ row' = row /\ col' = col + 1 /\ pc' = "cell_phase"
    ELSE IF row < LastRow(Sheet)
         THEN /\ row' = row + 1 /\ col' = 1 /\ pc' = "cell_phase"
         ELSE /\ row' = row /\ col' = col
              /\ pc' = IF region_count = 0 THEN "metadata_phase" ELSE "summarize_phase"

\* one iteration of the cell loops, at (row, col)
cell_loop_step ==
    /\ pc = "cell_phase"
    /\ LET sheet == Sheet
           cell_value == CellValue(sheet, row, col)
           bounds == find_region_boundaries(sheet, row, col)
           max_row == bounds[1]
           max_col == bounds[2]
           cells_data == extract_region_cells(sheet, row, col, max_row, max_col)
           merged_cells == get_merged_cells_info(sheet, row, col, max_row, max_col)
           payload == [cells |-> cells_data,
                       mergedCells |-> SubSeq(merged_cells, 1, Min(3, Len(merged_cells)))]
           table_payload == [cells |-> cells_data, mergedCells |-> merged_cells]
       IN  IF \/ Coord(col, row) \in processed_cells
              \/ cell_value = CellNone
              \/ IsDelimiterOnly(cell_value)
           THEN \* continue
                /\ AdvanceCell(Len(drawing_regions) + Len(cell_regions))
                /\ UNCHANGED <<cell_regions, processed_cells, result, memo>>
           ELSE \E region_type \in OracleChoices("classify", payload, RegionTypeAnswers) :
                \E header_answer \in
                      (IF region_type = "table"
                       THEN OracleChoices("header", table_payload, HeaderAnswers)
                       ELSE {NoHeaderCall}) :
                   LET region_metadata == cell_region(sheet, row, col, max_row, max_col,
                                                      region_type, header_answer)
                       appended == AppendCellRegion(cell_regions, region_metadata)
                       memo1 == Remember(memo, "classify", payload, region_type)
                   IN  /\ processed_cells' = MarkBox(processed_cells, row, col, max_row, max_col)
                       /\ cell_regions' = appended
                       /\ memo' = IF region_type = "table"
                                  THEN Remember(memo1, "header", table_payload, header_answer)
                                  ELSE memo1
                       /\ IF Len(regions) >= MAX_REGIONS
                          THEN \* return regions
                               /\ pc' = "returned"
                               /\ result' = Returned(regions)
                               /\ UNCHANGED <<row, col>>
                          ELSE /\ AdvanceCell(Len(drawing_regions) + Len(appended))
                               /\ UNCHANGED result
    /\ UNCHANGED <<workbook, harness, si, drawings, di, drawing_regions, regions, idx,
                   marked, summary_failed>>
    /\ UNCHANGED <<twice, book>>
    /\ UNCHANGED probe

\* variant: the loop is left at the first summarize call that fails
summarize_step_abort ==
    /\ pc = "summarize_phase"
    /\ LET all_regions == drawing_regions \o cell_regions
           region == all_regions[idx]
       IN  \E answer \in (IF PromptFails(region) THEN {"error"}
                          ELSE OracleChoices("summarize", region, SummaryAnswers)) :
             LET updated == [summary |-> summarize_region(region, answer)] @@ region
             IN  /\ IF idx <= Len(drawing_regions)
                    THEN /\ drawing_regions' = [drawing_regions EXCEPT ![idx] = updated]
                         /\ UNCHANGED cell_regions
                    ELSE /\ cell_regions' =
                              [cell_regions EXCEPT ![idx - Len(drawing_regions)] = updated]
                         /\ UNCHANGED drawing_regions
                 /\ summary_failed' = IF answer = "error" THEN summary_failed \cup {idx}
                                      ELSE summary_failed
                 /\ memo' = IF PromptFails(region) THEN memo
                            ELSE Remember(memo, "summarize", region, answer)
                 /\ idx' = idx + 1
                 /\ pc' = IF idx = Len(all_regions) \/ answer = "error"
                          THEN "metadata_phase" ELSE "summarize_phase"
    /\ UNCHANGED <<workbook, harness, si, drawings, di, regions, processed_cells, row, col,
                   result, marked>>
    /\ UNCHANGED <<twice, book>>
    /\ UNCHANGED probe

\* one iteration of `for idx, region in enumerate(drawing_regions + cell_regions)`
summarize_step ==
    /\ pc = "summarize_phase"
    /\ LET all_regions == drawing_regions \o cell_regions
           region == all_regions[idx]
       IN  \E answer \in (IF PromptFails(region) THEN {"error"}
                          ELSE OracleChoices("summarize", region, SummaryAnswers)) :
             LET updated == [summary |-> summarize_region(region, answer)] @@ region
             IN  /\ IF idx <= Len(drawing_regions)
                    THEN /\ drawing_regions' = [drawing_regions EXCEPT ![idx] = updated]
                         /\ UNCHANGED cell_regions
                    ELSE /\ cell_regions' =
                              [cell_regions EXCEPT ![idx - Len(drawing_regions)] = updated]
                         /\ UNCHANGED drawing_regions
                 /\ summary_failed' = IF answer = "error" THEN summary_failed \cup {idx}
                                      ELSE summary_failed
                 /\ memo' = IF PromptFails(region) THEN memo
                            ELSE Remember(memo, "summarize", region, answer)
                 /\ idx' = idx + 1
                 /\ pc' = IF idx = Len(all_regions) THEN "metadata_phase" ELSE "summarize_phase"
    /\ UNCHANGED <<workbook, harness, si, drawings, di, regions, processed_cells, row, col,
                   result, marked>>
    /\ UNCHANGED <<twice, book>>
    /\ UNCHANGED probe

\* the rest of detect_regions: the lists are joined, the metadata region is
\* appended when there is a region, and the list is returned
metadata_step ==
    /\ pc = "metadata_phase"
    /\ LET joined == AssembleRegions(regions, drawing_regions, cell_regions)
           sheet_data == [regions |-> joined,
                          drawingRegionsCount |-> Len(drawing_regions),
                          cellRegionsCount |-> Len(cell_regions)]
       IN  IF joined # <<>>
           THEN \E answer \in OracleChoices("sheet", sheet_data, SummaryAnswers) :
                  LET metadata == [type |-> "metadata", regionType |-> "metadata",
                                   totalRegions |-> Len(joined),
                                   drawingRegions |-> Len(drawing_regions),
                                   cellRegions |-> Len(cell_regions),
                                   summary |-> generate_sheet_summary(sheet_data, answer)]
                  IN  /\ regions' = Append(joined, metadata)
                      /\ result' = Returned(Append(joined, metadata))
                      /\ memo' = Remember(memo, "sheet", sheet_data, answer)
           ELSE /\ regions' = joined
                /\ result' = Returned(joined)
                /\ UNCHANGED memo
    /\ pc' = "returned"
    /\ UNCHANGED <<workbook, harness, si, drawings, di, drawing_regions, cell_regions,
                   processed_cells, row, col, idx, marked, summary_failed>>
    /\ UNCHANGED <<twice, book>>
    /\ UNCHANGED probe

\* ------------------------------------------------ extract_all_metadata
get_file_metadata == [fileName |-> "book.xlsx"]

\* sheet_meta of get_sheet_metadata (the sheet is named by its position)
sheet_meta(sheet_name, sheet, sheet_regions) ==
    [sheetName |-> sheet_name, rowCount |-> sheet.max_row,
     columnCount |-> sheet.max_column, mergedCells |-> sheet.merged_ranges,
     regions |-> sheet_regions]

\* del region["sampleCells"]
WithoutSampleCells(region) ==
    IF "sampleCells" \in DOMAIN region
    THEN [k \in DOMAIN region \ {"sampleCells"} |-> region[k]]
    ELSE region

StripSampleCells(sheets_metadata) ==
    [i \in 1..Len(sheets_metadata) |->
        [sheets_metadata[i] EXCEPT !.regions =
            [j \in 1..Len(@) |-> WithoutSampleCells(@[j])]]]

\* extract_all_metadata up to the first detect_regions call of get_sheet_metadata
extract_all_metadata_begin ==
    /\ harness = "extract"
    /\ pc = "idle"
    /\ file_metadata' = get_file_metadata
    /\ worksheets' = <<>>
    /\ si' = 1
    /\ detect_regions_begin(workbook[1])
    /\ UNCHANGED <<workbook, harness, memo, outcome>>
    /\ UNCHANGED twice
    /\ UNCHANGED probe

\* detect_regions returned for a sheet that is not the last: its sheet_meta is
\* appended and detect_regions is called for the next sheet
get_sheet_metadata_next ==
    /\ harness = "extract"
    /\ pc = "returned"
    /\ si < Len(workbook)
    /\ worksheets' = Append(worksheets, sheet_meta(si, Sheet, result.regions))
    /\ si' = si + 1
    /\ detect_regions_begin(workbook[si + 1])
    /\ UNCHANGED <<workbook, harness, memo, file_metadata, outcome>>
    /\ UNCHANGED twice
    /\ UNCHANGED probe

\* detect_regions returned for the last sheet: get_sheet_metadata returns, the
\* sample cells are removed and extract_all_metadata returns the document
extract_all_metadata_return ==
    /\ harness = "extract"
    /\ pc = "returned"
    /\ si = Len(workbook)
    /\ worksheets' = StripSampleCells(Append(worksheets, sheet_meta(si, Sheet, result.regions)))
    /\ outcome' = "returned"
    /\ pc' = "done"
    /\ UNCHANGED <<workbook, harness, si, memo, file_metadata>>
    /\ UNCHANGED <<drawings, di, drawing_regions, cell_regions, regions, processed_cells,
                   row, col, idx, result, marked, summary_failed>>
    /\ UNCHANGED twice
    /\ UNCHANGED probe

\* detect_regions raised: `except ...: raise` in get_sheet_metadata and in
\* extract_all_metadata pass the exception to the caller; no document is built
extract_all_metadata_raise ==
    /\ harness = "extract"
    /\ pc = "raised"
    /\ outcome' = "raised"
    /\ pc' = "done"
    /\ UNCHANGED <<workbook, harness, si, memo, file_metadata, worksheets>>
    /\ UNCHANGED <<drawings, di, drawing_regions, cell_regions, regions, processed_cells,
                   row, col, idx, result, marked, summary_failed>>
    /\ UNCHANGED twice
    /\ UNCHANGED probe

\* ------------------------------------- detect_regions called twice
NoRange == <<>>
\* the ranges of a result, in order (the metadata region has none)
RegionRanges(regs) ==
    [i \in 1..Len(regs) |-> IF "range" \in DOMAIN regs[i] THEN regs[i].range ELSE NoRange]
ResultRanges(res) == [status |-> res.status, ranges |-> RegionRanges(res.regions)]

IsDrawingRegion(region) == "coordinates" \in DOMAIN region
IsCellRegion(region) == "mergedCells" \in DOMAIN region
IsMetadataRegion(region) == "totalRegions" \in DOMAIN region

\* every cell region of the list carries the type analyze_region_type substitutes on failure
AllDefaulted(regs) ==
    \A i \in 1..Len(regs) : IsCellRegion(regs[i]) => regs[i].regionType = "unknown"

first_call ==
    /\ harness \in {"mock", "free", "offline"}
    /\ pc = "idle"
    /\ run' = 1
    /\ si' = 1
    /\ detect_regions_begin(workbook[1])
    /\ UNCHANGED <<workbook, harness, memo, prev_result, prev_ranges, prev_defaulted>>
    /\ UNCHANGED book
    /\ UNCHANGED probe

second_call ==
    /\ harness \in {"mock", "free"}
    /\ pc \in {"returned", "raised"}
    /\ run = 1
    /\ run' = 2
    /\ prev_ranges' = ResultRanges(result)
    /\ prev_result' = IF harness = "mock" THEN result ELSE NoResult
    /\ prev_defaulted' = AllDefaulted(result.regions)
    /\ detect_regions_begin(workbook[1])
    /\ UNCHANGED <<workbook, harness, si, memo>>
    /\ UNCHANGED book
    /\ UNCHANGED probe

\* ------------------------------------------------------ specifications
InitCommon ==
    /\ si = 1
    /\ run = 0
    /\ pc = "idle"
    /\ drawings = <<>>
    /\ di = 1
    /\ drawing_regions = <<>>
    /\ cell_regions = <<>>
    /\ regions = <<>>
    /\ processed_cells = {}
    /\ row = 1
    /\ col = 1
    /\ idx = 1
    /\ result = NoResult
    /\ marked = <<>>
    /\ summary_failed = {}
    /\ memo = EmptyMemo
    /\ prev_result = NoResult
    /\ prev_ranges = ResultRanges(NoResult)
    /\ prev_defaulted = FALSE
    /\ worksheets = <<>>
    /\ file_metadata = <<>>
    /\ outcome = "pending"

\* no helper method is called on its own
NoQuery == [fn |-> "none"]
NoReply == [status |-> "none"]
InitProbe == query = NoQuery /\ reply = NoReply

\* a workbook is opened and extract_all_metadata is called on it
Init ==
    /\ workbook \in Workbooks
    /\ harness = "extract"
    /\ InitCommon
    /\ InitProbe

Next ==
    \/ extract_all_metadata_begin
    \/ drawing_loop_step
    \/ cell_loop_step
    \/ summarize_step
    \/ metadata_step
    \/ get_sheet_metadata_next
    \/ extract_all_metadata_return
    \/ extract_all_metadata_raise

Spec == Init /\ [][Next]_vars

\* detect_regions is called twice on the same sheet; the oracle may answer
\* each call with any of its answers
InitTwice ==
    /\ workbook \in { <<s>> : s \in TwiceSheets }
    /\ harness = "free"
    /\ InitCommon
    /\ InitProbe

NextTwice ==
    \/ first_call
    \/ drawing_loop_step
    \/ cell_loop_step
    \/ summarize_step
    \/ metadata_step
    \/ second_call

SpecTwice == InitTwice /\ [][NextTwice]_vars

\* detect_regions is called twice on the same sheet; the oracle is
\* deterministic: the same payload always gets the same answer
InitReplay ==
    /\ workbook \in { <<s>> : s \in TwiceSheets }
    /\ harness = "mock"
    /\ InitCommon
    /\ InitProbe

SpecReplay == InitReplay /\ [][NextTwice]_vars

\* find_region_boundaries is called on its own, on any sheet with any seed
ScanQuery(start_row, start_col) ==
    [fn |-> "find_region_boundaries", start_row |-> start_row, start_col |-> start_col]

find_region_boundaries_call ==
    /\ harness = "scanner"
    /\ reply = NoReply
    /\ reply' = [status |-> "returned",
                  value |-> find_region_boundaries(Sheet, query.start_row, query.start_col)]
    /\ UNCHANGED <<workbook, harness, si, memo, query>>
    /\ UNCHANGED <<locals, pc, twice, book>>

InitScan ==
    /\ workbook \in { <<s>> : s \in ScanSheets }
    /\ harness = "scanner"
    /\ InitCommon
    /\ query \in { ScanQuery(seed[1], seed[2]) : seed \in ScanSeeds }
    /\ reply = NoReply

NextScan == find_region_boundaries_call

SpecScan == InitScan /\ [][NextScan]_vars

\* get_merged_cells_info or extract_region_cells is called on its own, on a
\* sheet with merged ranges and any rectangle
RectQuery(fn, rect) ==
    [fn |-> fn, start_row |-> rect.min_row, start_col |-> rect.min_col,
     max_row |-> rect.max_row, max_col |-> rect.max_col]

get_merged_cells_info_call ==
    /\ harness = "merges"
    /\ query.fn = "get_merged_cells_info"
    /\ reply = NoReply
    /\ reply' = [status |-> "returned",
                 value |-> get_merged_cells_info(Sheet, query.start_row, query.start_col,
                                                 query.max_row, query.max_col)]
    /\ UNCHANGED <<workbook, harness, si, memo, query>>
    /\ UNCHANGED <<locals, pc, twice, book>>

extract_region_cells_call ==
    /\ harness = "merges"
    /\ query.fn = "extract_region_cells"
    /\ reply = NoReply
    /\ reply' = [status |-> "returned",
                 value |-> extract_region_cells(Sheet, query.start_row, query.start_col,
                                                query.max_row, query.max_col)]
    /\ UNCHANGED <<workbook, harness, si, memo, query>>
    /\ UNCHANGED <<locals, pc, twice, book>>

InitMerge ==
    /\ workbook \in { <<s>> : s \in MergedSheets }
    /\ harness = "merges"
    /\ InitCommon
    /\ query \in { RectQuery(fn, rect) :
                     fn \in {"get_merged_cells_info", "extract_region_cells"},
                     rect \in Rects }
    /\ reply = NoReply

NextMerge ==
    \/ get_merged_cells_info_call
    \/ extract_region_cells_call

SpecMerge == InitMerge /\ [][NextMerge]_vars

\* detect_regions is called on a sheet with more rows than the cell loop visits
InitTall ==
    /\ workbook \in { <<s>> : s \in TallSheets }
    /\ harness = "free"
    /\ InitCommon
    /\ InitProbe

NextTall ==
    \/ first_call
    \/ cell_loop_step
    \/ summarize_step
    \/ metadata_step

SpecTall == InitTall /\ [][NextTall]_vars

\* ------------------------------------------------------------ properties
\* the list detect_regions has just returned (empty while it runs)
ReturnedRegions == IF pc = "returned" THEN result.regions ELSE <<>>
ReturnedCellRegions == SelectSeq(ReturnedRegions, IsCellRegion)
ReturnedDrawingRegions == SelectSeq(ReturnedRegions, IsDrawingRegion)

TopLeft(rng) == rng[1]
BottomRight(rng) == rng[2]
\* the value of the sheet's cell at a coordinate string
CellAt(sheet, coord) == CellValue(sheet, coord.row, column_index_from_string(coord.col))
\* one of the delimiter-only values '-', '_', '=' (blanks around it aside)
IsDelimiterValue(v) == v.kind = "str" /\ Strip(v.s) \in {<<"-">>, <<"_">>, <<"=">>}
\* non-empty and not a delimiter-only value
IsContent(v) == v # CellNone /\ ~IsDelimiterValue(v)
\* the cells marked processed for the drawing regions
DrawingConsumed == UNION { marked[k] : k \in 1..Len(marked) }

\* C1 as stated: in the list detect_regions returns, no two cell-derived
\* regions have ranges that share a cell.  The code does not keep this.
C1_NoSharedCell ==
    \A i, j \in 1..Len(ReturnedCellRegions) :
        i # j => RangeCells(ReturnedCellRegions[i].range)
                   \cap RangeCells(ReturnedCellRegions[j].range) = {}

\* C1 amended: in the list detect_regions returns, no cell-derived region's
\* top-left cell lies inside the range of another cell-derived region.
C1_SeedOutsideOtherRegions ==
    \A i, j \in 1..Len(ReturnedCellRegions) :
        i # j => TopLeft(ReturnedCellRegions[i].range)
                   \notin RangeCells(ReturnedCellRegions[j].range)

\* detect_regions returned two cell-derived regions that share a cell
C1_Witness ==
    /\ pc = "returned"
    /\ \E i, j \in 1..Len(ReturnedCellRegions) :
          /\ i < j
          /\ RangeCells(ReturnedCellRegions[i].range)
               \cap RangeCells(ReturnedCellRegions[j].range) # {}

\* C2 as stated: no cell-derived region's range contains a cell that was marked
\* consumed for a drawing region, and drawing-derived and cell-derived ranges
\* are disjoint.  The code does not keep this.
C2_DrawingAndCellDisjoint ==
    \A i \in 1..Len(ReturnedCellRegions) :
        /\ RangeCells(ReturnedCellRegions[i].range) \cap DrawingConsumed = {}
        /\ \A d \in 1..Len(ReturnedDrawingRegions) :
              RangeCells(ReturnedCellRegions[i].range)
                \cap RangeCells(ReturnedDrawingRegions[d].range) = {}

\* C2 amended: no cell-derived region's top-left cell was marked consumed for a
\* drawing region in the drawing phase.
C2_SeedNotDrawingConsumed ==
    \A i \in 1..Len(ReturnedCellRegions) :
        TopLeft(ReturnedCellRegions[i].range) \notin DrawingConsumed

\* detect_regions returned a cell-derived region on a sheet where a drawing
\* region consumed a non-empty cell
C2_Witness ==
    /\ pc = "returned"
    /\ Len(ReturnedCellRegions) >= 1
    /\ \E c \in DrawingConsumed : CellAt(Sheet, c) # CellNone

\* C3 as stated: every cell inside the range of any emitted region is non-empty
\* and not a delimiter-only value.  The code does not keep this.
C3_CoveredCellsAreContent ==
    \A i \in 1..Len(ReturnedRegions) :
        "range" \in DOMAIN ReturnedRegions[i] =>
            \A c \in RangeCells(ReturnedRegions[i].range) : IsContent(CellAt(Sheet, c))

\* C3 amended: the top-left cell of every emitted cell-derived region is
\* non-empty and not a delimiter-only value.
C3_TopLeftIsContent ==
    \A i \in 1..Len(ReturnedCellRegions) :
        IsContent(CellAt(Sheet, TopLeft(ReturnedCellRegions[i].range)))

\* detect_regions returned a cell-derived region on a sheet that has a
\* delimiter-only cell
C3_Witness ==
    /\ pc = "returned"
    /\ Len(ReturnedCellRegions) >= 1
    /\ \E p \in DOMAIN Sheet.cells : IsDelimiterValue(Sheet.cells[p])

\* the range ends inside the sheet's extents
WithinExtents(sheet, rng) ==
    /\ BottomRight(rng).row <= sheet.max_row
    /\ column_index_from_string(BottomRight(rng).col) <= sheet.max_column

\* C4 as stated: no region emitted by detect_regions, drawing-derived or
\* cell-derived, extends past row sheet.max_row or column sheet.max_column.
\* The code does not keep this for drawing-derived regions.
C4_AllRegionsWithinExtents ==
    \A i \in 1..Len(ReturnedRegions) :
        "range" \in DOMAIN ReturnedRegions[i] =>
            WithinExtents(Sheet, ReturnedRegions[i].range)

\* C4 amended: no cell-derived region emitted by detect_regions extends past
\* row sheet.max_row or column sheet.max_column.
C4_CellRegionsWithinExtents ==
    \A i \in 1..Len(ReturnedCellRegions) :
        WithinExtents(Sheet, ReturnedCellRegions[i].range)

\* detect_regions returned a cell-derived region that ends on the sheet's last
\* row and last column, on a sheet of more than one row and column
C4_Witness ==
    /\ pc = "returned"
    /\ Sheet.max_row > 1
    /\ Sheet.max_column > 1
    /\ \E i \in 1..Len(ReturnedCellRegions) :
          /\ BottomRight(ReturnedCellRegions[i].range).row = Sheet.max_row
          /\ column_index_from_string(BottomRight(ReturnedCellRegions[i].range).col)
               = Sheet.max_column

\* the second call of detect_regions on the sheet has ended
SecondCallEnded == run = 2 /\ pc \in {"returned", "raised"}

\* C5: with an oracle that answers deterministically, the second call of
\* detect_regions on the same sheet ends as the first did: the same region
\* list, so the same ranges in the same order.
C5_ReplayGivesSameList ==
    (harness = "mock" /\ SecondCallEnded) =>
        /\ result = prev_result
        /\ ResultRanges(result) = prev_ranges

\* the second call under the deterministic oracle returned a drawing region,
\* a cell region and the metadata region
C5_Witness ==
    /\ harness = "mock"
    /\ run = 2
    /\ pc = "returned"
    /\ Len(ReturnedDrawingRegions) >= 1
    /\ Len(ReturnedCellRegions) >= 1
    /\ memo.summarize # <<>>

\* C6: whatever the oracle answers, the second call of detect_regions on the
\* same sheet returns as many regions as the first, with the same ranges in
\* the same order.
C6_RangesIndependentOfOracle ==
    (harness = "free" /\ SecondCallEnded) => ResultRanges(result) = prev_ranges

\* the first call got the failure default for every region type, the second
\* call got a table answer and a summary text, and both returned a cell region
C6_Witness ==
    /\ harness = "free"
    /\ run = 2
    /\ pc = "returned"
    /\ prev_defaulted
    /\ \E i \in 1..Len(ReturnedCellRegions) :
          /\ ReturnedCellRegions[i].regionType = "table"
          /\ ReturnedCellRegions[i].summary = ORACLE_TEXT

\* the list is the drawing regions, then the cell regions, then one metadata region
DrawingsCellsMetadata(list) ==
    /\ Len(list) = Len(drawing_regions) + Len(cell_regions) + 1
    /\ SubSeq(list, 1, Len(list) - 1) = drawing_regions \o cell_regions
    /\ IsMetadataRegion(list[Len(list)])
    /\ \A i \in 1..(Len(list) - 1) : ~IsMetadataRegion(list[i])
    /\ \A i \in 1..Len(drawing_regions) : IsDrawingRegion(list[i])
    /\ \A i \in (Len(drawing_regions) + 1)..(Len(list) - 1) : IsCellRegion(list[i])

\* C7 as stated: the list detect_regions returns is all drawing-derived regions,
\* then all cell-derived regions, then exactly one metadata region as its last
\* element.  The code returns an empty list for a sheet without regions.
C7_AlwaysEndsWithMetadata ==
    pc = "returned" => DrawingsCellsMetadata(result.regions)

\* C7 amended: when detect_regions found at least one region, the list it
\* returns is all drawing-derived regions, then all cell-derived regions, then
\* exactly one metadata region as its last element; when it found none, the
\* list is empty.
C7_MetadataLastWhenRegions ==
    pc = "returned" =>
        IF drawing_regions \o cell_regions = <<>>
        THEN result.regions = <<>>
        ELSE DrawingsCellsMetadata(result.regions)

\* detect_regions returned a drawing region, a cell region and the metadata region
C7_Witness ==
    /\ pc = "returned"
    /\ Len(drawing_regions) >= 1
    /\ Len(cell_regions) >= 1
    /\ IsMetadataRegion(result.regions[Len(result.regions)])

\* C8 as stated: extract_all_metadata always returns a document that lists
\* every sheet of the workbook, the sheet whose detection raised with an empty
\* region list.  The code passes the exception on instead.
C8_DocumentListsEverySheet ==
    pc = "done" =>
        /\ outcome = "returned"
        /\ Len(worksheets) = Len(workbook)

\* one anchor extracted on its own gives a drawing with a range
ExtractsAlone(a) ==
    /\ extract_drawing_info(<<a>>) # <<>>
    /\ "range" \in DOMAIN extract_drawing_info(<<a>>)[1]

\* C9 as stated: an anchor whose extraction fails is skipped on its own: every
\* other anchor of the sheet still gives its drawing, and detect_regions does
\* not raise.  The code does not keep this.
C9_FailedAnchorOnlySkipped ==
    /\ pc # "raised"
    /\ pc \in {"cell_phase", "summarize_phase", "metadata_phase", "returned"} =>
          \A k \in 1..Len(Sheet.anchors) :
              ExtractsAlone(Sheet.anchors[k]) =>
                  \E d \in 1..Len(drawing_regions) :
                      drawing_regions[d].range = extract_drawing_info(<<Sheet.anchors[k]>>)[1].range

\* the regions whose summarize call failed, by position in the returned list
FailedSummaries == IF pc = "returned" THEN summary_failed ELSE {}

\* C10 as stated: a region whose summarize call failed has no summary field in
\* the output.  The code gives it the fixed failure text.
C10_FailedSummaryAbsent ==
    \A i \in FailedSummaries : "summary" \notin DOMAIN result.regions[i]

\* C10 amended: a region whose summarize call failed has a summary field in the
\* output, and its value is the fixed failure text of summarize_region.
C10_FailedSummaryIsPlaceholder ==
    \A i \in FailedSummaries :
        /\ "summary" \in DOMAIN result.regions[i]
        /\ result.regions[i].summary = SUMMARY_FAILED

\* detect_regions returned a list in which the summarize call failed for one
\* region and answered for another
C10_Witness ==
    /\ pc = "returned"
    /\ summary_failed # {}
    /\ \E i \in 1..Len(result.regions) :
          /\ i \notin summary_failed
          /\ ~IsMetadataRegion(result.regions[i])
          /\ result.regions[i].summary = ORACLE_TEXT

\* C11: when the summarize call fails for a region, every other region of the
\* returned list still has the summary the oracle gave for it, and the metadata
\* region is still appended as the last element.
C11_OthersSummarizedMetadataLast ==
    (pc = "returned" /\ summary_failed # {}) =>
        LET n == Len(result.regions)
        IN  /\ n = Len(drawing_regions) + Len(cell_regions) + 1
            /\ IsMetadataRegion(result.regions[n])
            /\ \A i \in 1..(n - 1) :
                  i \notin summary_failed =>
                      /\ "summary" \in DOMAIN result.regions[i]
                      /\ result.regions[i].summary = ORACLE_TEXT

\* detect_regions returned a list in which a summarize call failed and a later
\* region was summarized by the oracle
C11_Witness ==
    /\ pc = "returned"
    /\ \E i \in summary_failed :
          \E j \in (i + 1)..(Len(result.regions) - 1) :
              /\ j \notin summary_failed
              /\ result.regions[j].summary = ORACLE_TEXT
    /\ IsMetadataRegion(result.regions[Len(result.regions)])

\* the call of find_region_boundaries under way: its sheet, seed and result
Scanned == harness = "scanner" /\ reply.status = "returned"
SeedRow == query.start_row
SeedCol == query.start_col
ScanMaxRow == reply.value[1]
ScanMaxCol == reply.value[2]
\* the cell holds a value
NonEmpty(sheet, r, c) == CellValue(sheet, r, c) # CellNone

\* C12: for every sheet and every seed (row, col), an empty seed and a seed
\* outside the sheet's extents included, find_region_boundaries returns
\* maxRow >= row and maxCol >= col.
C12_BoxContainsSeed ==
    Scanned => ScanMaxRow >= SeedRow /\ ScanMaxCol >= SeedCol

\* find_region_boundaries returned for a seed outside the extents of a sheet
\* that has content
C12_Witness ==
    /\ Scanned
    /\ DOMAIN Sheet.cells # {}
    /\ SeedRow > Sheet.max_row
    /\ SeedCol > Sheet.max_column
    /\ ScanMaxRow = SeedRow /\ ScanMaxCol = SeedCol

\* the least element of a non-empty set of integers
Least(S) == CHOOSE k \in S : \A j \in S : k <= j
\* the number of non-empty cells from (r, c) downwards, and rightwards, up to
\* the first empty cell
RunDown(sheet, r, c) ==
    Least({ k \in r..(Max(sheet.max_row, r) + 1) : ~NonEmpty(sheet, k, c) }) - r
RunRight(sheet, r, c) ==
    Least({ k \in c..(Max(sheet.max_column, c) + 1) : ~NonEmpty(sheet, r, k) }) - c
\* the h x w block with top-left (r, c) has only non-empty cells and every cell
\* that borders it (corners included) is empty
IsolatedBlock(sheet, r, c, h, w) ==
    /\ h >= 1 /\ w >= 1
    /\ \A i \in r..(r + h - 1) : \A j \in c..(c + w - 1) : NonEmpty(sheet, i, j)
    /\ \A i \in Max(r - 1, 1)..(r + h) : \A j \in Max(c - 1, 1)..(c + w) :
          (i \in r..(r + h - 1) /\ j \in c..(c + w - 1)) \/ ~NonEmpty(sheet, i, j)
\* the seed is the top-left cell of an isolated block no higher than the row
\* scan's limit and no wider than the column scan's limit
SeedBlockHeight == RunDown(Sheet, SeedRow, SeedCol)
SeedBlockWidth == RunRight(Sheet, SeedRow, SeedCol)
SeedStartsIsolatedBlock ==
    /\ NonEmpty(Sheet, SeedRow, SeedCol)
    /\ SeedBlockHeight <= ROW_SCAN_LIMIT
    /\ SeedBlockWidth <= COL_SCAN_LIMIT
    /\ IsolatedBlock(Sheet, SeedRow, SeedCol, SeedBlockHeight, SeedBlockWidth)
\* the row under the block is empty over the whole column window of the row scan
RowUnderBlockClear ==
    \A j \in SeedCol..(Min(SeedCol + ROW_SCAN_WINDOW, Sheet.max_column + 1) - 1) :
        ~NonEmpty(Sheet, SeedRow + SeedBlockHeight, j)
ReturnsBlockCorner ==
    /\ ScanMaxRow = SeedRow + SeedBlockHeight - 1
    /\ ScanMaxCol = SeedCol + SeedBlockWidth - 1

\* C13 as stated: for every h x w block of non-empty cells that is surrounded
\* by empty cells (h within the row scan's limit, w within the column scan's
\* limit), find_region_boundaries seeded at the block's top-left cell returns
\* exactly the block's bottom-right cell.  The code does not keep this.
C13_IsolatedBlockIsBox ==
    (Scanned /\ SeedStartsIsolatedBlock) => ReturnsBlockCorner

\* C13 amended: for every such block under which the next row is empty over
\* the whole column window of the row scan, find_region_boundaries seeded at
\* the block's top-left cell returns exactly the block's bottom-right cell.
C13_ClearedBlockIsBox ==
    (Scanned /\ SeedStartsIsolatedBlock /\ RowUnderBlockClear) => ReturnsBlockCorner

\* find_region_boundaries returned the bottom-right cell of an isolated block
\* of several rows and columns that does not start in A1
C13_Witness ==
    /\ Scanned
    /\ SeedStartsIsolatedBlock
    /\ RowUnderBlockClear
    /\ SeedBlockHeight >= 2
    /\ SeedBlockWidth >= 2
    /\ SeedCol >= 2
    /\ ReturnsBlockCorner

\* the call of a merged-cell helper under way
MergedInfoReturned ==
    harness = "merges" /\ query.fn = "get_merged_cells_info" /\ reply.status = "returned"
SampleReturned ==
    harness = "merges" /\ query.fn = "extract_region_cells" /\ reply.status = "returned"
\* the cells of the queried rectangle and of a merged range
QueryCells == BoxCells(query.start_col, query.start_row, query.max_col, query.max_row)
MergeCells(m) == BoxCells(m.min_col, m.min_row, m.max_col, m.max_row)
\* the sheet's merged ranges that lie inside the queried rectangle
ContainedMerges ==
    { i \in 1..Len(Sheet.merged_ranges) : MergeCells(Sheet.merged_ranges[i]) \subseteq QueryCells }
\* the entry get_merged_cells_info is to give for the i-th merged range
MergeEntry(i) ==
    LET m == Sheet.merged_ranges[i]
    IN  [range |-> <<Coord(m.min_col, m.min_row), Coord(m.max_col, m.max_row)>>,
         value |-> CellValue(Sheet, m.min_row, m.min_col)]

\* C14: get_merged_cells_info returns exactly the sheet's merged ranges whose
\* four bounds lie inside the queried rectangle (a range that only overlaps it
\* never, a range inside it always), each once and paired with the value of
\* its top-left cell.
C14_ExactlyContainedMerges ==
    MergedInfoReturned =>
        /\ { reply.value[k] : k \in 1..Len(reply.value) }
             = { MergeEntry(i) : i \in ContainedMerges }
        /\ Len(reply.value) = Cardinality(ContainedMerges)

\* get_merged_cells_info returned one merged range with the value of its
\* top-left cell and left out another one that overlaps the rectangle
C14_Witness ==
    /\ MergedInfoReturned
    /\ Len(reply.value) = 1
    /\ reply.value[1].value # CellNone
    /\ \E i \in 1..Len(Sheet.merged_ranges) :
          /\ i \notin ContainedMerges
          /\ MergeCells(Sheet.merged_ranges[i]) \cap QueryCells # {}

\* the cell records of the sample extract_region_cells returned
SampledCells ==
    { reply.value[i][j] : i \in DOMAIN reply.value, j \in 1..(query.max_col - query.start_col + 1) }
\* the record reports the merged range m: the top-left cell's value as text,
\* isMerged = true and the range in A1 notation
ReportsMerge(cell, m) ==
    /\ cell.value = ValueText(CellValue(Sheet, m.min_row, m.min_col))
    /\ "isMerged" \in DOMAIN cell /\ cell.isMerged
    /\ "mergedRange" \in DOMAIN cell
    /\ cell.mergedRange = <<Coord(m.min_col, m.min_row), Coord(m.max_col, m.max_row)>>

\* C15 as stated: in the sample extract_region_cells returns, every cell that
\* belongs to a merged range, the range's top-left cell included, reports the
\* top-left cell's value, isMerged = true and mergedRange = the range in A1
\* notation.  The code does not do this for the top-left cell.
C15_EveryMergedCellReportsMerge ==
    SampleReturned =>
        \A cell \in SampledCells :
            \A k \in 1..Len(Sheet.merged_ranges) :
                Coord(cell.col, cell.row) \in MergeCells(Sheet.merged_ranges[k])
                    => ReportsMerge(cell, Sheet.merged_ranges[k])

\* the sheet has more occupied rows than the cell loop visits
MoreRowsThanCap == Cardinality({ q[1] : q \in DOMAIN Sheet.cells }) >= ROW_CAP

\* C16 as stated: when a sheet has more occupied rows than the cell phase's row
\* cap, the range of every cell-derived region lies within rows 1..ROW_CAP, and
\* detect_regions raises no exception.  The code does not keep the ranges
\* within the cap.
C16_RegionsWithinRowCap ==
    MoreRowsThanCap =>
        /\ pc # "raised"
        /\ \A i \in 1..Len(ReturnedCellRegions) :
              BottomRight(ReturnedCellRegions[i].range).row <= ROW_CAP

\* C16 amended: when a sheet has more occupied rows than the cell phase's row
\* cap, the top-left cell of every cell-derived region lies within the rows the
\* cell loop visits, 1..ROW_CAP - 1, and detect_regions raises no exception.
C16_SeedsWithinRowCap ==
    MoreRowsThanCap =>
        /\ pc # "raised"
        /\ \A i \in 1..Len(ReturnedCellRegions) :
              TopLeft(ReturnedCellRegions[i].range).row \in 1..(ROW_CAP - 1)

\* detect_regions returned, for a sheet with more occupied rows than the cap,
\* a cell-derived region that starts in the loop's last row and ends past the cap
C16_Witness ==
    /\ pc = "returned"
    /\ MoreRowsThanCap
    /\ \E i \in 1..Len(ReturnedCellRegions) :
          /\ TopLeft(ReturnedCellRegions[i].range).row = ROW_CAP - 1
          /\ BottomRight(ReturnedCellRegions[i].range).row > ROW_CAP

\* row r has a non-empty cell in the window of up to ROW_SCAN_WINDOW columns
\* that starts at the seed column and ends with the sheet
RowHasContent(r) ==
    \E j \in SeedCol..(Min(SeedCol + ROW_SCAN_WINDOW, Sheet.max_column + 1) - 1) :
        NonEmpty(Sheet, r, j)
\* the rows the row scan may examine
ScannedRows == SeedRow..Min(Sheet.max_row, SeedRow + ROW_SCAN_LIMIT - 1)
\* the last row of the maximal run of rows with content that starts at the
\* seed row (the row before the seed row when the run is empty)
RowRunEnd ==
    LET stops == { r \in ScannedRows : ~RowHasContent(r) }
    IN  IF stops = {} THEN Min(Sheet.max_row, SeedRow + ROW_SCAN_LIMIT - 1)
        ELSE Least(stops) - 1

\* C17: the maxRow find_region_boundaries returns is the last row of the
\* maximal run of consecutive rows, starting at the seed row, in which each row
\* has a non-empty cell in the window [col, min(col + 20, max_column + 1)); the
\* scan stops at the first row whose window is empty, and rows after it never
\* extend maxRow.  (With an empty run maxRow is the seed row.)
C17_MaxRowEndsRowRun ==
    Scanned => ScanMaxRow = Max(SeedRow, RowRunEnd)

\* find_region_boundaries returned a maxRow that a row with content in the
\* window, lying after an empty row, did not extend, for a run that has a row
\* whose only content is outside the seed column
C17_Witness ==
    /\ Scanned
    /\ RowHasContent(SeedRow)
    /\ \E r \in SeedRow..ScanMaxRow : ~NonEmpty(Sheet, r, SeedCol)
    /\ ~RowHasContent(ScanMaxRow + 1)
    /\ \E r \in (ScanMaxRow + 2)..Sheet.max_row : RowHasContent(r)

\* column c has a non-empty cell in the rows from the seed row to the returned
\* maxRow, at most COL_SCAN_WINDOW of them
ColHasContent(c) ==
    \E i \in SeedRow..Min(ScanMaxRow, SeedRow + COL_SCAN_WINDOW - 1) : NonEmpty(Sheet, i, c)
\* the columns the column scan may examine
ScannedCols == SeedCol..Min(Sheet.max_column, SeedCol + COL_SCAN_LIMIT - 1)
\* the last column of the maximal run of columns with content that starts at
\* the seed column (the column before the seed column when the run is empty)
ColRunEnd ==
    LET stops == { c \in ScannedCols : ~ColHasContent(c) }
    IN  IF stops = {} THEN Min(Sheet.max_column, SeedCol + COL_SCAN_LIMIT - 1)
        ELSE Least(stops) - 1

C19_ScansAreBounded ==
    Scanned =>
        /\ ScanMaxRow <= SeedRow + ROW_SCAN_LIMIT - 1
        /\ ScanMaxCol <= SeedCol + COL_SCAN_LIMIT - 1

\* find_region_boundaries returned maxRow = row + 999 for a seed with more than
\* 999 non-empty rows below it
C19_Witness ==
    /\ Scanned
    /\ ScanMaxRow = SeedRow + ROW_SCAN_LIMIT - 1
    /\ NonEmpty(Sheet, ScanMaxRow + 1, SeedCol)

\* the row and column of the top-left cell of a cell region
SeedOf(region) ==
    <<TopLeft(region.range).row, column_index_from_string(TopLeft(region.range).col)>>
\* position p comes before position q in row-major order
RowMajorBefore(p, q) == p[1] < q[1] \/ (p[1] = q[1] /\ p[2] < q[2])
\* the step appends a region to cell_regions
SeedChosen == Len(cell_regions') = Len(cell_regions) + 1

\* C20: whenever the cell phase makes a cell the seed of a region, the cell is
\* not in the consumed set at that moment, is non-empty and is not a delimiter
\* character; seeds are taken in row-major order, so that no cell is the seed
\* of two regions.
C20_SeedsFreshAndInOrder ==
    [][SeedChosen =>
          /\ SeedOf(cell_regions'[Len(cell_regions')]) = <<row, col>>
          /\ Coord(col, row) \notin processed_cells
          /\ IsContent(CellValue(Sheet, row, col))
          /\ \A i \in 1..Len(cell_regions) :
                RowMajorBefore(SeedOf(cell_regions[i]), <<row, col>>)]_vars

\* detect_regions returned two cell-derived regions with seeds in different
\* rows, on a sheet with a non-empty cell that was consumed and never a seed
C20_Witness ==
    /\ pc = "returned"
    /\ \E i, j \in 1..Len(ReturnedCellRegions) :
          SeedOf(ReturnedCellRegions[i])[1] < SeedOf(ReturnedCellRegions[j])[1]
    /\ \E q \in DOMAIN Sheet.cells :
          /\ Coord(q[2], q[1]) \in processed_cells
          /\ \A i \in 1..Len(ReturnedCellRegions) : SeedOf(ReturnedCellRegions[i]) # q


\* ------------------------------------------- drawing anchors with offsets
\* an xdr:from / xdr:to with xdr:colOff and xdr:rowOff
OffsetMarker(c, r, cOff, rOff) ==
    [present |-> TRUE, complete |-> TRUE, col |-> c, row |-> r, colOff |-> cOff, rowOff |-> rOff]
TwoCellAnchorAt(child, from, to) ==
    [tag |-> "twoCellAnchor", child |-> child, childComplete |-> TRUE,
     from |-> from, to |-> to, ext |-> NoExt, pos |-> NoPos]

\* the two-cell anchors of a shape or a picture between any two cells of the
\* grid, in either order, whose xdr:from lies at the cell's edge or one cell
\* width into it
OffsetAnchors ==
    { TwoCellAnchorAt(child, OffsetMarker(fc, fr, cOff, 0), OffsetMarker(tc, tr, 0, 0)) :
        child \in {"sp", "pic"},
        fc \in 0..(MaxCols - 1), fr \in 0..(MaxRows - 1),
        tc \in 0..(MaxCols - 1), tr \in 0..(MaxRows - 1),
        cOff \in {0, EMU_PER_CELL} }

\* sheets without cell content that carry one such anchor, alone or followed by
\* a picture over B1:B1
DrawingSheets ==
    { MkSheet(<<>>, anchors) :
        anchors \in { <<a>> : a \in OffsetAnchors \cup AnchorVariants }
                    \cup { <<a, TwoCellAnchor("pic", 1, 0, 1, 0)>> : a \in OffsetAnchors } }

InitDrawing ==
    /\ workbook \in { <<s>> : s \in DrawingSheets }
    /\ harness = "free"
    /\ InitCommon
    /\ InitProbe

NextDrawing ==
    \/ first_call
    \/ drawing_loop_step
    \/ cell_loop_step
    \/ summarize_step
    \/ metadata_step

SpecDrawing == InitDrawing /\ [][NextDrawing]_vars

\* the drawing loop is over: every drawing has its region and its marks
DrawingPhaseEnded == pc \in {"cell_phase", "summarize_phase", "metadata_phase", "returned"}

\* C21: at the end of the drawing phase the cells marked consumed for a drawing
\* region are exactly the cells of the range reported for that region
C21_MarkedIsReportedRange ==
    DrawingPhaseEnded =>
        \A k \in 1..Len(drawing_regions) :
            marked[k] = RangeCells(drawing_regions[k].range)

\* the ends of a reported range, as 1-based column and row indices
RangeFromCol(rng) == column_index_from_string(rng[1].col)
RangeToCol(rng) == column_index_from_string(rng[2].col)

\* C25: the range resolved for a drawing anchor has from <= to on both axes
C25_RangeNeverInverted ==
    \A k \in 1..Len(drawings) :
        "range" \in DOMAIN drawings[k] =>
            /\ RangeFromCol(drawings[k].range) <= RangeToCol(drawings[k].range)
            /\ drawings[k].range[1].row <= drawings[k].range[2].row


\* C22: no region is emitted for a seed whose box is the seed cell alone:
\* every cell-derived region spans at least two cells
C22_CellRegionsSpanTwoCells ==
    \A k \in 1..Len(cell_regions) :
        Cardinality(RangeCells(cell_regions[k].range)) >= 2


\* ------------------------------------------------ sheets of many regions
\* n bars of `width` cells in the odd rows 1, 3, ..., 2n - 1: every bar is a
\* region of its own, since the row under it is empty
StripedSheet(n, width) ==
    [cells |-> [q \in { 2 * k - 1 : k \in 1..n } \X (1..width) |-> Str(<<"a">>)],
     max_row |-> 2 * n - 1, max_column |-> width, merged_ranges |-> <<>>, anchors |-> <<>>]
\* sheets with as many regions as the ceiling, one fewer and more
StripedSheets ==
    { StripedSheet(n, width) : n \in (MAX_REGIONS - 1)..(MAX_REGIONS + MaxBeyond),
                               width \in 1..MaxCols }

\* detect_regions on a striped sheet while the completion service cannot be reached
InitStriped ==
    /\ workbook \in { <<s>> : s \in StripedSheets }
    /\ harness = "offline"
    /\ InitCommon
    /\ InitProbe

NextStriped ==
    \/ first_call
    \/ cell_loop_step
    \/ summarize_step
    \/ metadata_step

SpecStriped == InitStriped /\ [][NextStriped]_vars

\* C23: the cell phase stops at the region-count ceiling: the returned list
\* never holds more than 10 cell-derived regions
C23_AtMostTenCellRegions ==
    Len(ReturnedCellRegions) <= MAX_REGIONS


\* ------------------------------------------------------- wide rectangles
\* self.MAX_CELLS_PER_ANALYSIS
MAX_CELLS_PER_ANALYSIS == 100
\* the narrowest rectangle whose first SAMPLE_ROWS + 1 rows hold more than
\* MAX_CELLS_PER_ANALYSIS cells
WideCols == MAX_CELLS_PER_ANALYSIS \div (SAMPLE_ROWS + 1) + 1
\* a sheet of one filled row, `width` cells wide
WideSheet(width) ==
    [cells |-> [q \in {1} \X (1..width) |-> Str(<<"a">>)],
     max_row |-> 1, max_column |-> width, merged_ranges |-> <<>>, anchors |-> <<>>]
\* the rectangles from A1 up to one as wide as WideCols and taller than the sample
WideRects ==
    { [min_row |-> 1, min_col |-> 1, max_row |-> r, max_col |-> c] :
        r \in 1..(SAMPLE_ROWS + 1 + MaxBeyond), c \in 1..(WideCols + MaxBeyond) }

\* extract_region_cells is called on its own with a wide rectangle
InitWide ==
    /\ workbook \in { <<WideSheet(width)>> : width \in {1, WideCols} }
    /\ harness = "merges"
    /\ InitCommon
    /\ query \in { RectQuery("extract_region_cells", rect) : rect \in WideRects }
    /\ reply = NoReply

NextWide == extract_region_cells_call

SpecWide == InitWide /\ [][NextWide]_vars

RECURSIVE SumOfLengths(_, _)
SumOfLengths(rows, i) ==
    IF i > Len(rows) THEN 0 ELSE Len(rows[i]) + SumOfLengths(rows, i + 1)
\* the number of cell descriptors in the returned sample
SampleSize == SumOfLengths(reply.value, 1)

\* C24: the sample returned by extract_region_cells holds at most
\* MAX_CELLS_PER_ANALYSIS cell descriptors in total
C24_SampleWithinMaxCells ==
    SampleReturned => SampleSize <= MAX_CELLS_PER_ANALYSIS


\* ------------------------------------------------------- table headers
\* a cell that holds the int 1; s is str(value)
IntOne == [kind |-> "int", s |-> <<"1">>]
\* sheets of text and numeric cells, without drawings
HeaderSheets ==
    { MkSheet(Written(g), <<>>) :
        g \in { f \in [GridCells -> {CellNone, Str(<<"a">>), IntOne}] :
                  Filled(f) <= MaxFilled - 1 } }

\* detect_regions on such a sheet, with an oracle whose answers are recorded
InitHeader ==
    /\ workbook \in { <<s>> : s \in HeaderSheets }
    /\ harness = "mock"
    /\ InitCommon
    /\ InitProbe

NextHeader ==
    \/ first_call
    \/ cell_loop_step
    \/ summarize_step
    \/ metadata_step

SpecHeader == InitHeader /\ [][NextHeader]_vars

Digits == {"0", "1", "2", "3", "4", "5", "6", "7", "8", "9"}
\* the trimmed text is made of digits only
PurelyNumeric(text) ==
    Strip(text) # <<>> /\ \A n \in 1..Len(Strip(text)) : Strip(text)[n] \in Digits
\* a row of a sampled block is header-like: every cell is text or empty, one
\* at least is non-empty and none is purely numeric
HeaderLike(sample_row) ==
    /\ \A j \in 1..Len(sample_row) : sample_row[j].type \in {"text", "empty"}
    /\ \E j \in 1..Len(sample_row) : sample_row[j].value # <<>>
    /\ \A j \in 1..Len(sample_row) : ~PurelyNumeric(sample_row[j].value)
\* what analyze_table_structure is called with for a table region
HeaderPayload(region) == [cells |-> region.sampleCells, mergedCells |-> region.mergedCells]
\* the table-header oracle was called for the region
HeaderOracleCalled(region) == HeaderPayload(region) \in DOMAIN memo.header

\* C26: a table region whose sampled block has no header-like leading row has
\* headerType = none and headerRows = [], and the table-header oracle is not
\* called for it
C26_NoOracleWithoutHeaderLikeRow ==
    \A k \in 1..Len(cell_regions) :
        LET region == cell_regions[k]
        IN  region.regionType = "table" /\ ~HeaderLike(region.sampleCells[1]) =>
                /\ region.headerStructure.headerType = "none"
                /\ region.headerStructure.headerRows = <<>>
                /\ ~HeaderOracleCalled(region)

\* C27: when the table-header oracle answers for a table region, the region's
\* headerStructure has the headerRows and the headerType the oracle returned
C27_HeaderIsOracleAnswer ==
    \A k \in 1..Len(cell_regions) :
        LET region == cell_regions[k]
        IN  region.regionType = "table" /\ HeaderOracleCalled(region) =>
                /\ region.headerStructure.headerType = memo.header[HeaderPayload(region)].type
                /\ region.headerStructure.headerRows = memo.header[HeaderPayload(region)].rows


\* ------------------------------------------------ legacy form controls
\* A v:shape of a vmlDrawing part: its id attribute (a str, as characters), the
\* ObjectType of its x:ClientData, the column and row of its x:Anchor, its
\* x:Checked and the text of its v:textbox.
VmlShape(id, object_type, anchor_col, label) ==
    [id |-> id, ObjectType |-> object_type, col |-> anchor_col, row |-> 0,
     checked |-> TRUE, text |-> label]

\* ids with a numeric suffix after '_s', without the delimiter, with a suffix
\* that is no number and with an empty suffix
VmlIds ==
    { <<"_", "s", "1">>, <<"_", "s", "2">>, <<"c", "1">>, <<"_", "s", "x">>, <<"_", "s">> }
\* "Note" stands for every ObjectType that is no check box or option button
VmlObjectTypes == {"Checkbox", "Note"}
\* the shape lists of a vmlDrawing part; the k-th shape is labelled k
VmlShapeLists ==
    UNION { { [k \in 1..n |-> VmlShape(f[k][1], f[k][2], f[k][3], k)] :
                f \in [1..n -> VmlIds \X VmlObjectTypes \X {0, 1}] } : n \in 1..MaxAnchors }

\* '_s' in shape_id
HasDelimiter(id) == \E n \in 1..(Len(id) - 1) : id[n] = "_" /\ id[n + 1] = "s"
\* shape_id.split('_s')[-1]
LastPiece(id) ==
    LET at == { n \in 1..(Len(id) - 1) : id[n] = "_" /\ id[n + 1] = "s" }
        last == CHOOSE n \in at : \A m \in at : m <= n
    IN  IF at = {} THEN id ELSE SubSeq(id, last + 2, Len(id))
DigitChars == <<"0", "1", "2", "3", "4", "5", "6", "7", "8", "9">>
IsDigit(ch) == \E n \in 1..Len(DigitChars) : DigitChars[n] = ch
DigitValue(ch) == (CHOOSE n \in 1..Len(DigitChars) : DigitChars[n] = ch) - 1
\* int(text) for a text of digits; every other text raises ValueError
RECURSIVE IntOfDigits(_)
IntOfDigits(text) ==
    IF text = <<>> THEN 0
    ELSE 10 * IntOfDigits(SubSeq(text, 1, Len(text) - 1)) + DigitValue(text[Len(text)])
ParsesAsInt(text) == text # <<>> /\ \A n \in 1..Len(text) : IsDigit(text[n])

\* control_id before the first assignment
UnboundId == [bound |-> FALSE, value |-> 0]
BoundId(n) == [bound |-> TRUE, value |-> n]

\* control_info of a check box shape
control_info(shape, control_id) ==
    [id |-> control_id, type |-> "checkbox", checked |-> shape.checked,
     position |-> RangeStr(shape.col + 1, shape.row + 1, shape.col + 1, shape.row + 1),
     text |-> shape.text]

\* the loop `for shape in shapes` of _parse_vml_for_controls from the k-th
\* shape on: control_id is assigned only when the id holds '_s' and keeps its
\* value otherwise; int() of a suffix that is no number and the read of an
\* unassigned control_id raise
RECURSIVE ParseVmlShapes(_, _, _, _)
ParseVmlShapes(shapes, k, control_id, controls) ==
    IF k > Len(shapes) THEN [raised |-> FALSE, controls |-> controls]
    ELSE LET shape == shapes[k]
             assigned == IF HasDelimiter(shape.id)
                         THEN BoundId(IntOfDigits(LastPiece(shape.id)))
                         ELSE control_id
         IN  IF HasDelimiter(shape.id) /\ ~ParsesAsInt(LastPiece(shape.id))
             THEN [raised |-> TRUE, controls |-> controls]          \* ValueError
             ELSE IF shape.ObjectType # "Checkbox"
                  THEN ParseVmlShapes(shapes, k + 1, assigned, controls)
                  ELSE IF ~assigned.bound
                       THEN [raised |-> TRUE, controls |-> controls]  \* UnboundLocalError
                       ELSE ParseVmlShapes(shapes, k + 1, assigned,
                                Append(controls, control_info(shape, assigned.value)))

\* _parse_vml_for_controls(vml_content): the controls, or [] when anything raised
parse_vml_for_controls(shapes) ==
    LET parsed == ParseVmlShapes(shapes, 1, UnboundId, <<>>)
    IN  IF parsed.raised THEN <<>> ELSE parsed.controls

\* vml_controls[control['position']] = control for every control: a dict in
\* insertion order, a repeated key keeps its place and takes the new value
RECURSIVE CollectVmlControls(_, _, _)
CollectVmlControls(controls, k, vml_controls) ==
    IF k > Len(controls) THEN vml_controls
    ELSE LET same == { n \in 1..Len(vml_controls) :
                         vml_controls[n].position = controls[k].position }
         IN  CollectVmlControls(controls, k + 1,
                 IF same = {} THEN Append(vml_controls, controls[k])
                 ELSE [n \in 1..Len(vml_controls) |->
                         IF n \in same THEN controls[k] ELSE vml_controls[n]])

\* next((ctrl for ctrl in vml_controls.values() if ctrl.get('id') == shape_id), None)
MatchVmlControl(vml_controls, shape_id) ==
    LET hits == { n \in 1..Len(vml_controls) : vml_controls[n].id = shape_id }
    IN  IF hits = {} THEN NoneResult
        ELSE vml_controls[CHOOSE n \in hits : \A m \in hits : n <= m]

\* the vmlDrawing part is parsed and its controls are collected, as
\* extract_drawing_info does before it reads the shapes of drawing.xml
parse_vml_for_controls_call ==
    /\ harness = "vml"
    /\ reply = NoReply
    /\ reply' = [status |-> "returned",
                 value |-> parse_vml_for_controls(query.shapes),
                 vml_controls |-> CollectVmlControls(parse_vml_for_controls(query.shapes),
                                                     1, <<>>)]
    /\ UNCHANGED <<workbook, harness, si, memo, query>>
    /\ UNCHANGED <<locals, pc, twice, book>>

InitVml ==
    /\ workbook = <<MkSheet(<<>>, <<>>)>>
    /\ harness = "vml"
    /\ InitCommon
    /\ query \in { [fn |-> "_parse_vml_for_controls", shapes |-> shapes] :
                     shapes \in VmlShapeLists }
    /\ reply = NoReply

NextVml == parse_vml_for_controls_call

SpecVml == InitVml /\ [][NextVml]_vars

VmlParsed == harness = "vml" /\ reply.status = "returned"
\* the id of the VML shape has a numeric suffix after '_s'
WellFormedId(id) == HasDelimiter(id) /\ ParsesAsInt(LastPiece(id))
\* the ids a shape of drawing.xml may carry
DrawingShapeIds == 0..2

\* C28: a control whose id has no numeric suffix after '_s' is matched to no
\* shape, and it does not make the parsing of the other controls fail
C28_IllFormedIdNeitherMatchesNorFails ==
    VmlParsed =>
        /\ \A shape_id \in DrawingShapeIds :
             LET vml_control == MatchVmlControl(reply.vml_controls, shape_id)
             IN  vml_control # NoneResult => WellFormedId(query.shapes[vml_control.text].id)
        /\ \A k \in 1..Len(query.shapes) :
             query.shapes[k].ObjectType = "Checkbox" /\ WellFormedId(query.shapes[k].id) =>
                \E n \in 1..Len(reply.value) : reply.value[n].text = k


\* the metadata regions of the returned list and the regions before them
ReturnedMetadata == SelectSeq(ReturnedRegions, IsMetadataRegion)

\* C29: a returned metadata region has totalRegions = drawingRegions +
\* cellRegions, drawingRegions the number of drawing-derived regions of the
\* returned list and cellRegions the number of its cell-derived regions
C29_MetadataCountsTheList ==
    \A k \in 1..Len(ReturnedMetadata) :
        /\ ReturnedMetadata[k].totalRegions =
               ReturnedMetadata[k].drawingRegions + ReturnedMetadata[k].cellRegions
        /\ ReturnedMetadata[k].drawingRegions = Len(ReturnedDrawingRegions)
        /\ ReturnedMetadata[k].cellRegions = Len(ReturnedCellRegions)

C29_Witness ==
    /\ Len(ReturnedMetadata) = 1
    /\ ReturnedMetadata[1].drawingRegions >= 1
    /\ ReturnedMetadata[1].cellRegions >= 1


\* find_region_boundaries returned for a seed that holds a value
ScannedFromContent == Scanned /\ NonEmpty(Sheet, SeedRow, SeedCol)
\* row r / column c has a non-empty cell inside the returned box
RowFilledInBox(r) == \E c \in SeedCol..ScanMaxCol : NonEmpty(Sheet, r, c)
ColFilledInBox(c) == \E r \in SeedRow..ScanMaxRow : NonEmpty(Sheet, r, c)

\* C30 as stated: for a non-empty seed, every row and every column of the box
\* find_region_boundaries returns has a non-empty cell inside the box.  The
\* code does not keep this for rows.
C30_NoEmptyRowOrColumnInBox ==
    ScannedFromContent =>
        /\ \A r \in SeedRow..ScanMaxRow : RowFilledInBox(r)
        /\ \A c \in SeedCol..ScanMaxCol : ColFilledInBox(c)

\* C30, amended: for a non-empty seed, every column of the returned box has a
\* non-empty cell inside the box, and every row of the box has a non-empty
\* cell in the row scan's window [col, min(col + 20, max_column + 1)), inside
\* the box or to the right of it
C30_ColumnsFilledRowsInWindow ==
    ScannedFromContent =>
        /\ \A c \in SeedCol..ScanMaxCol : ColFilledInBox(c)
        /\ \A r \in SeedRow..ScanMaxRow :
              \E c \in SeedCol..Min(SeedCol + ROW_SCAN_WINDOW - 1, Sheet.max_column) :
                 NonEmpty(Sheet, r, c)

\* a box of several rows, one of which has its only content to the right of the box
C30_Witness ==
    /\ ScannedFromContent
    /\ ScanMaxRow > SeedRow
    /\ \E r \in SeedRow..ScanMaxRow :
          /\ ~RowFilledInBox(r)
          /\ \E c \in (ScanMaxCol + 1)..Sheet.max_column : NonEmpty(Sheet, r, c)

====
